---- MODULE Spec2Model ----
(***************************************************************************)
(* The request handler layer of the serverless to-do application           *)
(* (sam-backend-todo-app/src/todos.js): createTodoHandler,                  *)
(* getTodosHandler, updateTodoHandler and deleteTodoHandler, run against a  *)
(* DynamoDB table keyed by (userId, todoId).                                *)
(***************************************************************************)
EXTENDS Integers, Sequences, FiniteSets, TLC

(***************************************************************************)
(* Bounds of the model.                                                     *)
(***************************************************************************)
\* the clock readings are 0..MaxClock
MaxClock == 1
\* the table holds at most MaxItems records in the sequential specification
MaxItems == 2

(***************************************************************************)
(* JavaScript values.  A string is the sequence of its pieces: a piece is   *)
(* either one whitespace character " " or a maximal run of non-whitespace   *)
(* characters, so "" is << >> and " b" is << " ", "b" >>.                   *)
(***************************************************************************)
Undefined == [kind |-> "undefined", str |-> << >>, num |-> 0]
Null == [kind |-> "null", str |-> << >>, num |-> 0]
Str(s) == [kind |-> "string", str |-> s, num |-> 0]
Num(n) == [kind |-> "number", str |-> << >>, num |-> n]

\* typeof v
TypeOf(v) == IF v.kind = "null" THEN "object" ELSE v.kind

\* ToBoolean(v), the test made by !v and by v && ...
Truthy(v) ==
  CASE v.kind = "undefined" -> FALSE
    [] v.kind = "null" -> FALSE
    [] v.kind = "string" -> v.str /= << >>
    [] v.kind = "number" -> v.num /= 0
    [] OTHER -> TRUE

\* a || b
OrElse(a, b) == IF Truthy(a) THEN a ELSE b

RECURSIVE TrimStart(_)
TrimStart(s) ==
  IF s /= << >> /\ Head(s) = " " THEN TrimStart(Tail(s)) ELSE s

RECURSIVE TrimEnd(_)
TrimEnd(s) ==
  IF s /= << >> /\ s[Len(s)] = " " THEN TrimEnd(SubSeq(s, 1, Len(s) - 1)) ELSE s

\* the string as it is, nothing trimmed
NoTrim(s) == s

\* String.prototype.trim
Trim(s) == TrimEnd(TrimStart(s))

\* new Date().toISOString() at instant t: the text of the instant, a string
ToISOString(t) == [kind |-> "string", str |-> << "T" >>, num |-> t]

(***************************************************************************)
(* Records of the table.  An attribute a record does not have is Undefined. *)
(***************************************************************************)
AttributeNames ==
  {"userId", "todoId", "title", "description", "status", "createdAt", "updatedAt"}

NoAttributes == [a \in AttributeNames |-> Undefined]

KeyOf(item) == << item.userId, item.todoId >>

\* the record of the table at a key, as a set of at most one record
ItemsAt(table, userId, todoId) ==
  {i \in table : i.userId = userId /\ i.todoId = todoId}

(***************************************************************************)
(* The DynamoDB table (partition key userId, sort key todoId) and the four  *)
(* operations the handlers send to it.  The table is a set of records with  *)
(* pairwise different keys.                                                 *)
(***************************************************************************)
\* the order of the sort key todoId (the order Query returns records in)
TodoIdOrder == << "i1", "i2", "i3" >>

TodoIdRank(todoId) ==
  IF todoId.kind = "string" /\ Len(todoId.str) = 1
       /\ \E k \in 1..Len(TodoIdOrder) : TodoIdOrder[k] = todoId.str[1]
  THEN CHOOSE k \in 1..Len(TodoIdOrder) : TodoIdOrder[k] = todoId.str[1]
  ELSE 0

\* a PutItem on a table keyed by userId alone: the record replaces every
\* record of its owner
PutItemByOwner(table, item) ==
  {i \in table : i.userId /= item.userId} \cup {item}

\* PutItem without a condition: writes the record, replacing any record of
\* the same key
PutItem(table, item) ==
  {i \in table : KeyOf(i) /= KeyOf(item)} \cup {item}

\* a write that replaces the record of the key by the key and the SET
\* attributes alone, as a PutItem would
ReplacedItem(table, userId, todoId, names, values) ==
  [a \in AttributeNames |->
     IF \E k \in 1..Len(names) : names[k] = a THEN values[a]
     ELSE [NoAttributes EXCEPT !.userId = userId, !.todoId = todoId][a]]

\* UpdateItem with "SET ..." and no ConditionExpression: edits the record of
\* the key, or adds a new record holding the key and the SET attributes when
\* the key has none; ReturnValues ALL_NEW gives back the record as written
UpdatedItem(table, userId, todoId, names, values) ==
  LET old == IF ItemsAt(table, userId, todoId) = {}
             THEN [NoAttributes EXCEPT !.userId = userId, !.todoId = todoId]
             ELSE CHOOSE i \in ItemsAt(table, userId, todoId) : TRUE
  IN [a \in AttributeNames |->
        IF \E k \in 1..Len(names) : names[k] = a THEN values[a] ELSE old[a]]

UpdateItem(table, userId, todoId, names, values) ==
  PutItem(table, UpdatedItem(table, userId, todoId, names, values))

\* the output of the call: Attributes as a set of at most one record
UpdateItemOutput(table, userId, todoId, names, values) ==
  [Attributes |-> {UpdatedItem(table, userId, todoId, names, values)}]

\* a DeleteItem whose Key is the sort key alone: it deletes the records of
\* every owner under the id
DeleteItemByTodoId(table, userId, todoId) ==
  {i \in table : i.todoId /= todoId}

\* DeleteItem without a condition; ReturnValues ALL_OLD gives back the record
\* that was deleted, and nothing when the key held none
DeleteItem(table, userId, todoId) ==
  table \ ItemsAt(table, userId, todoId)

\* an output that gives back the records found under the id alone, of
\* whichever owner
DeleteItemOutputByTodoId(table, userId, todoId) ==
  [Attributes |-> {i \in table : i.todoId = todoId}]

\* the output of a DeleteItem without ReturnValues: no Attributes
DeleteItemOutputNone(table, userId, todoId) ==
  [Attributes |-> {}]

DeleteItemOutput(table, userId, todoId) ==
  [Attributes |-> ItemsAt(table, userId, todoId)]

\* Query with KeyConditionExpression userId = :u: the records of the
\* partition, in the order of the sort key
RECURSIVE SortedByTodoId(_)
SortedByTodoId(items) ==
  IF items = {} THEN << >>
  ELSE LET first == CHOOSE i \in items :
                      \A j \in items : TodoIdRank(i.todoId) <= TodoIdRank(j.todoId)
       IN << first >> \o SortedByTodoId(items \ {first})

\* a Scan in place of the Query: the records of every partition
ScanItems(table, userId) ==
  SortedByTodoId(table)

\* a Query with Limit 1: the first record of the partition only
QueryFirstItem(table, userId) ==
  LET all == SortedByTodoId({i \in table : i.userId = userId})
  IN IF all = << >> THEN << >> ELSE << all[1] >>

QueryItems(table, userId) ==
  SortedByTodoId({i \in table : i.userId = userId})

(***************************************************************************)
(* Exceptions: the errors JavaScript throws and the errors the store call   *)
(* rejects with.  A message is the sequence of its phrases.                 *)
(***************************************************************************)
NoError == [name |-> "", message |-> << >>]
TypeError == [name |-> "TypeError", message |-> << "Cannot read properties" >>]
SyntaxError == [name |-> "SyntaxError", message |-> << "Unexpected token" >>]
KeySchemaPhrase == "The provided key element does not match the schema"
ServiceDown == [name |-> "Error", message |-> << "DynamoDB is down" >>]
KeySchemaMismatch == [name |-> "ValidationException", message |-> << KeySchemaPhrase >>]
OtherValidation ==
  [name |-> "ValidationException", message |-> << "One or more parameter values were invalid" >>]
QuotedKeySchema ==
  [name |-> "InternalServerError", message |-> << "while reporting:", KeySchemaPhrase >>]

\* the call resolves with an output that holds no Attributes and no Items,
\* the {} the unit tests have the store answer for an item that is not found;
\* the table is left as it is
EmptyOutput == [name |-> "", message |-> << "{}" >>]

\* the call rejects
Rejects(outcome) == outcome.name /= ""

\* error.message.includes(phrase)
Includes(message, phrase) == \E k \in 1..Len(message) : message[k] = phrase

\* the outcomes of docClient.send: NoError when the call resolves with the
\* output of the store
StoreOutcomes ==
  {NoError, EmptyOutput, ServiceDown, KeySchemaMismatch, OtherValidation,
   QuotedKeySchema}

(***************************************************************************)
(* Commands sent with docClient.send.                                       *)
(***************************************************************************)
NoValues == [a \in AttributeNames |-> Undefined]

PutCommand(item) ==
  [name |-> "PutCommand", userId |-> item.userId, todoId |-> item.todoId,
   Item |-> item, set |-> << >>, values |-> NoValues]

QueryCommand(userId) ==
  [name |-> "QueryCommand", userId |-> userId, todoId |-> Undefined,
   Item |-> NoAttributes, set |-> << >>, values |-> NoValues]

UpdateCommand(userId, todoId, names, values) ==
  [name |-> "UpdateCommand", userId |-> userId, todoId |-> todoId,
   Item |-> NoAttributes, set |-> names, values |-> values]

DeleteCommand(userId, todoId) ==
  [name |-> "DeleteCommand", userId |-> userId, todoId |-> todoId,
   Item |-> NoAttributes, set |-> << >>, values |-> NoValues]

(***************************************************************************)
(* Responses.                                                               *)
(***************************************************************************)
CorsHeaders ==
  [ContentType |-> "application/json", AllowOrigin |-> "*",
   AllowMethods |-> "GET,POST,PUT,DELETE,OPTIONS",
   AllowHeaders |-> "Content-Type,X-Amz-Date,Authorization,X-Api-Key,X-Amz-Security-Token"]

\* the response bodies: { message }, { message, todo } and { todos }
MessageBody(m) ==
  [keys |-> {"message"}, message |-> m, todo |-> NoAttributes, todos |-> << >>]
TodoBody(m, item) ==
  [keys |-> {"message", "todo"}, message |-> m, todo |-> item, todos |-> << >>]
TodosBody(list) ==
  [keys |-> {"todos"}, message |-> "", todo |-> NoAttributes, todos |-> list]

generateResponse(statusCode, body) ==
  [statusCode |-> statusCode, headers |-> CorsHeaders, body |-> body]

\* what one invocation does: its response, the commands it sent, the table after
Outcome(response, sent, table) ==
  [response |-> response, sent |-> sent, table |-> table]

(***************************************************************************)
(* Events.                                                                  *)
(***************************************************************************)
\* event.requestContext?.authorizer?.claims?.sub
ClaimedSub(event) ==
  IF event.requestContext.level = "claims" THEN event.requestContext.sub ELSE Undefined

\* event.pathParameters.id throws a TypeError when pathParameters is undefined or null
PathIdThrows(event) == event.pathParameters.kind /= "object"
PathId(event) == event.pathParameters.id

\* JSON.parse(event.body): undefined and malformed text throw a SyntaxError,
\* null parses to null
ParseThrows(event) == event.body.kind \in {"undefined", "malformed"}
JsonNull == [kind |-> "null", title |-> Undefined, description |-> Undefined,
             status |-> Undefined, others |-> {}]
JsonParse(event) == IF event.body.kind = "null" THEN JsonNull ELSE event.body.value

\* const { title, description, status } = requestBody throws a TypeError on null;
\* a key the value does not have reads as undefined
DestructureThrows(requestBody) == requestBody.kind = "null"

(***************************************************************************)
(* The handlers.  Each takes the event, the table as the store call finds   *)
(* it, the values the invocation draws (the uuid, the clock reading) and    *)
(* the outcome of its docClient.send, and gives what the invocation does.   *)
(***************************************************************************)
Pending == Str(<< "pending" >>)
Completed == Str(<< "completed" >>)

\* a list of statuses that also lets 'done' through
AllowedStatusesWithDone == {Pending, Completed, Str(<< "done" >>)}

\* ['pending', 'completed']
AllowedStatuses == {Pending, Completed}

\* !title || typeof title !== 'string' || title.trim() === ''
createTitleInvalid(title) ==
  ~Truthy(title) \/ TypeOf(title) /= "string" \/ Trim(title.str) = << >>

\* description && typeof description !== 'string'
createDescriptionInvalid(description) ==
  Truthy(description) /\ TypeOf(description) /= "string"

\* title !== undefined, and typeof title !== 'string' || title.trim() === ''
updateTitleInvalid(title) ==
  title /= Undefined /\ (TypeOf(title) /= "string" \/ Trim(title.str) = << >>)

\* the test of createTodoHandler, description && typeof description !== 'string',
\* used in updateTodoHandler: falsy values pass
updateDescriptionInvalidIfTruthy(description) ==
  Truthy(description) /\ TypeOf(description) /= "string"

\* description !== undefined, and typeof description !== 'string'
updateDescriptionInvalid(description) ==
  description /= Undefined /\ TypeOf(description) /= "string"

\* status !== undefined, and !['pending', 'completed'].includes(status)
updateStatusInvalid(status) ==
  status /= Undefined /\ status \notin AllowedStatuses

\* userId === undefined instead of !userId: an empty subject passes
UnauthenticatedOnlyUndefined(userId) == userId = Undefined

\* !userId
Unauthenticated(userId) == ~Truthy(userId)

\* params.Item with description: description, without the default
NewItemWithoutDefault(userId, todoId, title, description, createdAt) ==
  [userId |-> userId, todoId |-> todoId, title |-> title,
   description |-> description,
   status |-> Pending, createdAt |-> createdAt, updatedAt |-> createdAt]

\* params.Item of createTodoHandler
NewItem(userId, todoId, title, description, createdAt) ==
  [userId |-> userId, todoId |-> todoId, title |-> title,
   description |-> OrElse(description, Str(<< >>)),
   status |-> Pending, createdAt |-> createdAt, updatedAt |-> createdAt]

\* the answer 403 in place of 401
Forbidden ==
  generateResponse(403, MessageBody("Unauthorized: User ID not found in token."))

Unauthorized ==
  generateResponse(401, MessageBody("Unauthorized: User ID not found in token."))
IdRequired == generateResponse(400, MessageBody("To-Do ID is required."))

\* a catch block that puts error.name in the message
createCatchWithName(error) ==
  generateResponse(500, MessageBody(error.name))

\* the catch block of createTodoHandler
createCatch(error) ==
  generateResponse(500, MessageBody("Failed to create To-Do item. Please try again later."))

createTodoHandler(event, table, uuid, t, outcome) ==
  LET userId == ClaimedSub(event) IN
  IF Unauthenticated(userId) THEN Outcome(Unauthorized, << >>, table)
  ELSE IF ParseThrows(event) THEN Outcome(createCatch(SyntaxError), << >>, table)
  ELSE IF DestructureThrows(JsonParse(event))
  THEN Outcome(createCatch(TypeError), << >>, table)
  ELSE
    LET requestBody == JsonParse(event)
        title == requestBody.title
        description == requestBody.description
    IN
    IF createTitleInvalid(title)
    THEN Outcome(generateResponse(400,
           MessageBody("Title is required and must be a non-empty string.")), << >>, table)
    ELSE IF createDescriptionInvalid(description)
    THEN Outcome(generateResponse(400,
           MessageBody("Description must be a string.")), << >>, table)
    ELSE
      LET createdAt == ToISOString(t)
          Item == NewItem(userId, uuid, title, description, createdAt)
      IN
      IF Rejects(outcome)
      THEN Outcome(createCatch(outcome), << PutCommand(Item) >>, table)
      ELSE Outcome(generateResponse(201,
             TodoBody("To-Do item created successfully.", Item)),
             << PutCommand(Item) >>, PutItem(table, Item))

\* the catch block of getTodosHandler
getCatch(error) ==
  generateResponse(500, MessageBody("Failed to retrieve To-Do items. Please try again later."))

getTodosHandler(event, table, outcome) ==
  LET userId == ClaimedSub(event) IN
  IF Unauthenticated(userId) THEN Outcome(Unauthorized, << >>, table)
  ELSE IF Rejects(outcome)
  THEN Outcome(getCatch(outcome), << QueryCommand(userId) >>, table)
  ELSE
    LET Items == IF outcome = EmptyOutput THEN << >> ELSE QueryItems(table, userId)
    IN Outcome(generateResponse(200, TodosBody(Items)),
               << QueryCommand(userId) >>, table)

\* a catch block that tests error.name alone: every ValidationException is
\* answered 400
updateCatchByNameOnly(error) ==
  IF error.name = "ValidationException"
  THEN generateResponse(400, MessageBody("Invalid To-Do ID or data format."))
  ELSE generateResponse(500,
         MessageBody("Failed to update To-Do item. Please try again later."))

\* the catch block of updateTodoHandler
updateCatch(error) ==
  IF error.name = "ValidationException" /\ Includes(error.message, KeySchemaPhrase)
  THEN generateResponse(400, MessageBody("Invalid To-Do ID or data format."))
  ELSE generateResponse(500,
         MessageBody("Failed to update To-Do item. Please try again later."))

\* updateExpressions that sets every field, those the body does not hold
\* included
updateExpressionsAllFields(title, description, status) ==
  << "title", "description", "status", "updatedAt" >>

\* updateExpressions without the clause for description
updateExpressionsWithoutDescription(title, description, status) ==
  (IF title /= Undefined THEN << "title" >> ELSE << >>)
    \o (IF status /= Undefined THEN << "status" >> ELSE << >>)
    \o << "updatedAt" >>

\* the SET clauses pushed onto updateExpressions, as the attributes they set
updateExpressions(title, description, status) ==
  (IF title /= Undefined THEN << "title" >> ELSE << >>)
    \o (IF description /= Undefined THEN << "description" >> ELSE << >>)
    \o (IF status /= Undefined THEN << "status" >> ELSE << >>)
    \o << "updatedAt" >>

expressionAttributeValues(title, description, status, t) ==
  [NoValues EXCEPT !.title = title, !.description = description,
                   !.status = status, !.updatedAt = ToISOString(t)]

updateTodoHandler(event, table, t, outcome) ==
  LET userId == ClaimedSub(event) IN
  IF Unauthenticated(userId) THEN Outcome(Unauthorized, << >>, table)
  ELSE IF PathIdThrows(event) THEN Outcome(updateCatch(TypeError), << >>, table)
  ELSE IF ~Truthy(PathId(event)) THEN Outcome(IdRequired, << >>, table)
  ELSE IF ParseThrows(event) THEN Outcome(updateCatch(SyntaxError), << >>, table)
  ELSE IF DestructureThrows(JsonParse(event))
  THEN Outcome(updateCatch(TypeError), << >>, table)
  ELSE
    LET todoId == PathId(event)
        requestBody == JsonParse(event)
        title == requestBody.title
        description == requestBody.description
        status == requestBody.status
    IN
    IF updateTitleInvalid(title)
    THEN Outcome(generateResponse(400,
           MessageBody("Title must be a non-empty string.")), << >>, table)
    ELSE IF updateDescriptionInvalid(description)
    THEN Outcome(generateResponse(400,
           MessageBody("Description must be a string.")), << >>, table)
    ELSE IF updateStatusInvalid(status)
    THEN Outcome(generateResponse(400,
           MessageBody("Status must be 'pending' or 'completed'.")), << >>, table)
    ELSE
      LET names == updateExpressions(title, description, status)
          values == expressionAttributeValues(title, description, status, t)
          command == UpdateCommand(userId, todoId, names, values)
      IN
      IF Len(names) = 0
      THEN Outcome(generateResponse(400,
             MessageBody("No valid fields provided for update.")), << >>, table)
      ELSE IF Rejects(outcome)
      THEN Outcome(updateCatch(outcome), << command >>, table)
      ELSE
        LET data == IF outcome = EmptyOutput THEN [Attributes |-> {}]
                    ELSE UpdateItemOutput(table, userId, todoId, names, values)
            Attributes == data.Attributes
            after == IF outcome = EmptyOutput THEN table
                     ELSE UpdateItem(table, userId, todoId, names, values)
        IN
        IF Attributes = {}
        THEN Outcome(generateResponse(404,
               MessageBody("To-Do item not found or unauthorized to update.")),
               << command >>, after)
        ELSE Outcome(generateResponse(200,
               TodoBody("To-Do item updated successfully.",
                        CHOOSE i \in Attributes : TRUE)),
               << command >>, after)

\* the catch block of deleteTodoHandler
deleteCatch(error) ==
  generateResponse(500, MessageBody("Failed to delete To-Do item. Please try again later."))

deleteTodoHandler(event, table, outcome) ==
  LET userId == ClaimedSub(event) IN
  IF Unauthenticated(userId) THEN Outcome(Unauthorized, << >>, table)
  ELSE IF PathIdThrows(event) THEN Outcome(deleteCatch(TypeError), << >>, table)
  ELSE IF ~Truthy(PathId(event)) THEN Outcome(IdRequired, << >>, table)
  ELSE
    LET todoId == PathId(event)
        command == DeleteCommand(userId, todoId)
    IN
    IF Rejects(outcome)
    THEN Outcome(deleteCatch(outcome), << command >>, table)
    ELSE
      LET data == IF outcome = EmptyOutput THEN [Attributes |-> {}]
                  ELSE DeleteItemOutput(table, userId, todoId)
          Attributes == data.Attributes
          after == IF outcome = EmptyOutput THEN table
                   ELSE DeleteItem(table, userId, todoId)
      IN
      IF Attributes = {}
      THEN Outcome(generateResponse(404,
             MessageBody("To-Do item not found or unauthorized to delete.")),
             << command >>, after)
      ELSE Outcome(generateResponse(200,
             MessageBody("To-Do item deleted successfully.")), << command >>, after)

(***************************************************************************)
(* The inputs.                                                              *)
(***************************************************************************)
\* the subjects Cognito issues, and the ids uuidv4 draws
Users == {Str(<< "u1" >>), Str(<< "u2" >>)}
Uuids == {Str(<< "i1" >>), Str(<< "i2" >>)}

NoContext == [level |-> "none", sub |-> Undefined]
Claims(sub) == [level |-> "claims", sub |-> sub]

NoPathParameters == [kind |-> "undefined", id |-> Undefined]
NullPathParameters == [kind |-> "null", id |-> Undefined]
PathParameters(id) == [kind |-> "object", id |-> id]

JsonObject(title, description, status, others) ==
  [kind |-> "object", title |-> title, description |-> description,
   status |-> status, others |-> others]
\* a JSON number, string or boolean: it has none of the keys
JsonPrimitive == [kind |-> "primitive", title |-> Undefined, description |-> Undefined,
                  status |-> Undefined, others |-> {}]

NoBody == [kind |-> "undefined", value |-> JsonNull]
NullBody == [kind |-> "null", value |-> JsonNull]
MalformedBody == [kind |-> "malformed", value |-> JsonNull]
JsonBody(value) == [kind |-> "json", value |-> value]

Event(requestContext, pathParameters, body) ==
  [requestContext |-> requestContext, pathParameters |-> pathParameters, body |-> body]

\* keys of a body that no handler reads
OtherKeys == {"userId", "todoId", "createdAt", "updatedAt", "priority"}

\* every shape of request: the single-invocation specification draws from these
AllContexts ==
  {NoContext, Claims(Undefined), Claims(Str(<< >>))} \cup {Claims(u) : u \in Users}
AllPathParameters ==
  {NoPathParameters, NullPathParameters}
    \cup {PathParameters(id) : id \in {Undefined, Str(<< >>)} \cup Uuids}
AllTitles ==
  {Undefined, Null, Num(1), Str(<< >>), Str(<< " " >>), Str(<< "a" >>), Str(<< " ", "b" >>)}
AllDescriptions ==
  {Undefined, Null, Num(0), Num(1), Str(<< >>), Str(<< "d" >>)}
AllStatuses == {Undefined, Null, Pending, Completed, Str(<< "done" >>)}
AllBodies ==
  {NoBody, NullBody, MalformedBody, JsonBody(JsonNull), JsonBody(JsonPrimitive)}
    \cup {JsonBody(JsonObject(t, d, s, o)) :
            t \in AllTitles, d \in AllDescriptions, s \in AllStatuses,
            o \in {{}, OtherKeys}}

\* the requests of the sequential specification
SomeContexts == {NoContext} \cup {Claims(u) : u \in Users}
SomePathParameters == {PathParameters(id) : id \in Uuids}
SomeCreateBodies ==
  {JsonBody(JsonObject(Str(<< "a" >>), Undefined, Undefined, {}))}
SomeUpdateBodies ==
  {JsonBody(JsonObject(Str(<< " ", "b" >>), Str(<< "d" >>), Undefined, OtherKeys))}
SomeOutcomes == {NoError, ServiceDown}

(***************************************************************************)
(* The state: the table, the clock, and the invocation in hand (how far it  *)
(* is, the clock reading and the uuid it took, which handler runs, on which *)
(* event, the table as its store call found it, the commands it sent, its   *)
(* response).                                                               *)
(***************************************************************************)
VARIABLES table, found, now, pc, reading, handler, event, sent, storeError, response

\* the invocations that run at the same time, in the specification of
\* concurrent invocations: for each, how far it is, the handler, its event,
\* the clock reading it took, the outcome of its store call, its response
VARIABLES calls

\* the to-do page of the frontend (initTodoHandlers): the two inputs, the
\* message, the list as rendered, the calls of the handlers that wait in
\* await fetchAuthSession(), the API requests made and not yet resumed from,
\* the number of API requests made, the number of fetchTodos calls made and
\* what the call made last has put in the list when it has resumed
VARIABLES newTodoTitleInput, newTodoDescriptionInput, todoMessage, todoList,
          sessions, requests, issued, issuedFetch, latestResult

todoPageVars ==
  << newTodoTitleInput, newTodoDescriptionInput, todoMessage, todoList,
     sessions, requests, issued, issuedFetch, latestResult >>

\* the sign-in form of the frontend (initAuthHandlers): the mode, the
\* heading, the message, the inputs, the elements whose classList holds
\* 'hidden', the signUp, confirmSignUp and signIn calls awaited, the number
\* of signOut calls awaited, and whether checkUserAuth awaits getCurrentUser
VARIABLES isSignInMode, authHeading, authMessage, emailInput, passwordInput,
          confirmationCodeInput, toggleAuthModeButton, hidden, signingUp,
          confirming, signingIn, signingOut, checking

authPageVars ==
  << isSignInMode, authHeading, authMessage, emailInput, passwordInput,
     confirmationCodeInput, toggleAuthModeButton, hidden, signingUp,
     confirming, signingIn, signingOut, checking >>

frontendVars == << todoPageVars, authPageVars >>

\* the table, the clock and the Lambda invocations
backendVars ==
  << table, found, now, pc, reading, handler, event, sent, storeError, response,
     calls >>

\* the variables the sequential and the single-invocation specifications
\* leave alone
otherVars == << calls, frontendVars >>

vars ==
  << table, found, now, pc, reading, handler, event, sent, storeError, response,
     calls, frontendVars >>

NoEvent == Event(NoContext, NoPathParameters, NoBody)
NoResponse == generateResponse(0, MessageBody(""))

\* the concurrent invocations
Procs == {1, 2}

\* new Date() and uuidv4() as a handler has read them before its await
Reading(clock, uuid) == [clock |-> clock, uuid |-> uuid]
NoReading == Reading(0, Undefined)

NoCall ==
  [pc |-> "ready", handler |-> "none", event |-> NoEvent, clock |-> 0,
   uuid |-> Undefined, storeError |-> NoError, response |-> NoResponse]
NoCalls == [p \in Procs |-> NoCall]

\* a message element: its textContent, the pieces of a template literal one
\* after the other and '' being << >>, and its className
Message(textContent, className) ==
  [textContent |-> textContent, className |-> className]

\* the list element: what it shows and, when it shows to-dos, which
ListView(view, todos) == [view |-> view, todos |-> todos]

\* the to-do page when initTodoHandlers has run and nothing was done yet
TodoPageInit ==
  /\ newTodoTitleInput = << >>
  /\ newTodoDescriptionInput = << >>
  /\ todoMessage = Message(<< >>, "")
  /\ todoList = ListView("", << >>)
  /\ sessions = << >>
  /\ requests = {}
  /\ issued = 0
  /\ issuedFetch = 0
  /\ latestResult = ListView("", << >>)

\* the sign-in form when initAuthHandlers has run (let isSignInMode = false)
\* on a page that shows the form in sign-up mode, and main.js has called
\* checkUserAuth, which awaits getCurrentUser
AuthPageInit ==
  /\ isSignInMode = FALSE
  /\ authHeading = "Sign Up"
  /\ authMessage = Message(<< >>, "")
  /\ emailInput = ""
  /\ passwordInput = ""
  /\ confirmationCodeInput = ""
  /\ toggleAuthModeButton = "Already have an account? Sign In"
  /\ hidden = {"signinButton", "confirmationCodeSection", "todoAppSection"}
  /\ signingUp = << >>
  /\ confirming = << >>
  /\ signingIn = << >>
  /\ signingOut = 0
  /\ checking = TRUE

FrontendInit == TodoPageInit /\ AuthPageInit

Idle ==
  /\ pc = "idle"
  /\ reading = NoReading
  /\ handler = "none"
  /\ event = NoEvent
  /\ sent = << >>
  /\ storeError = NoError
  /\ response = NoResponse

Init ==
  /\ table = {}
  /\ found = {}
  /\ now = 0
  /\ calls = NoCalls
  /\ FrontendInit
  /\ Idle

\* what the invocation of the handler name does on event e, with the uuid
\* and the clock reading t it took, when its store call finds the table
\* holding records and ends in outcome
Run(name, e, records, uuid, t, outcome) ==
  CASE name = "createTodoHandler" -> createTodoHandler(e, records, uuid, t, outcome)
    [] name = "getTodosHandler" -> getTodosHandler(e, records, outcome)
    [] name = "updateTodoHandler" -> updateTodoHandler(e, records, t, outcome)
    [] OTHER -> deleteTodoHandler(e, records, outcome)

\* the handler reaches its await docClient.send on event e: what it does
\* before the await reads neither the table nor the store
Awaits(name, e) == Run(name, e, {}, Undefined, 0, NoError).sent /= << >>

\* the uuids of the creates that wait for the store
UuidsAwaited ==
  ((IF pc = "awaiting" THEN {reading.uuid} ELSE {})
     \cup {calls[p].uuid : p \in {q \in Procs : calls[q].pc = "awaiting"}}
     \cup {r.uuid : r \in {q \in requests : q.stage = "invoked"}})
    \ {Undefined}

\* the ids that callers hold: the ids the requests not yet answered name in
\* their path, and the ids the to-do page has in the calls of its handlers,
\* in the list as rendered and in the answers on their way to it
IdsNamed ==
  ((IF pc = "awaiting" THEN {event.pathParameters.id} ELSE {})
     \cup {calls[p].event.pathParameters.id :
             p \in {q \in Procs : calls[q].pc = "awaiting"}}
     \cup {sessions[k].pathParameters.id : k \in 1..Len(sessions)}
     \cup {r.pathParameters.id : r \in requests}
     \cup UNION {{r.response.body.todos[k].todoId :
                    k \in 1..Len(r.response.body.todos)} : r \in requests}
     \cup {todoList.todos[k].todoId : k \in 1..Len(todoList.todos)})
    \ {Undefined}

\* uuidv4() gives an id no record has, no other invocation has drawn and no
\* caller has named
Fresh(uuid) ==
  /\ \A i \in table : i.todoId /= uuid
  /\ uuid \notin UuidsAwaited
  /\ uuid \notin IdsNamed

\* the uuid an invocation takes: a fresh one when createTodoHandler reaches
\* uuidv4(), none otherwise
Drawn(name, e, uuid) ==
  IF name = "createTodoHandler" /\ Awaits(name, e)
  THEN uuid \in Uuids /\ Fresh(uuid)
  ELSE uuid = Undefined

\* the caller of an update or a delete cannot name the id a create has drawn
\* and not yet answered
Known(e) == e.pathParameters.id \notin UuidsAwaited

\* the store answers {} only to an update of a key that holds no record
Answers(name, e, outcome) ==
  outcome = EmptyOutput
    => /\ name = "updateTodoHandler"
       /\ ItemsAt(table, ClaimedSub(e), PathId(e)) = {}

\* no concurrent invocation has an answer that has yet to go to its caller
NoneAnswered == \A p \in Procs : calls[p].pc /= "done"

\* the handler name starts on event e and runs to its await docClient.send,
\* or to its return when it answers before
Start(name, e, uuid) ==
  LET r == Run(name, e, table, uuid, now, NoError)
  IN /\ pc = "idle"
     /\ NoneAnswered
     /\ Drawn(name, e, uuid)
     /\ Known(e)
     /\ pc' = IF Awaits(name, e) THEN "awaiting" ELSE "responded"
     /\ reading' = Reading(now, uuid)
     /\ handler' = name
     /\ event' = e
     /\ sent' = r.sent
     /\ storeError' = NoError
     /\ response' = IF Awaits(name, e) THEN NoResponse ELSE r.response
     /\ found' = table
     /\ UNCHANGED << table, now >>
     /\ UNCHANGED otherVars

CreateTodo(contexts, bodies) ==
  /\ pc = "idle"
  /\ \E c \in contexts, b \in bodies, uuid \in Uuids \cup {Undefined} :
       Start("createTodoHandler", Event(c, NullPathParameters, b), uuid)

GetTodos(contexts) ==
  /\ pc = "idle"
  /\ \E c \in contexts :
       Start("getTodosHandler", Event(c, NullPathParameters, NullBody), Undefined)

UpdateTodo(contexts, paths, bodies) ==
  /\ pc = "idle"
  /\ \E c \in contexts, p \in paths, b \in bodies :
       Start("updateTodoHandler", Event(c, p, b), Undefined)

DeleteTodo(contexts, paths, bodies) ==
  /\ pc = "idle"
  /\ \E c \in contexts, p \in paths, b \in bodies :
       Start("deleteTodoHandler", Event(c, p, b), Undefined)

\* await docClient.send settles: the store has applied the command to the
\* table as it is now, or has rejected it, and the handler answers
Resume(outcomes) ==
  /\ pc = "awaiting"
  /\ NoneAnswered
  /\ \E outcome \in outcomes :
       LET r == Run(handler, event, table, reading.uuid, reading.clock, outcome)
       IN /\ Answers(handler, event, outcome)
          /\ Cardinality(r.table) <= MaxItems
          /\ pc' = "responded"
          /\ storeError' = outcome
          /\ response' = r.response
          /\ table' = r.table
          /\ found' = table
  /\ UNCHANGED << now, reading, handler, event, sent >>
  /\ UNCHANGED otherVars

\* time passes; an answer goes to its caller (Return) before anything else
\* happens
Tick ==
  /\ pc /= "responded"
  /\ now < MaxClock
  /\ now' = now + 1
  /\ UNCHANGED << table, found, pc, reading, handler, event, sent, storeError, response >>
  /\ UNCHANGED otherVars

\* the response has gone to the caller; the next invocation starts afresh
Return ==
  /\ pc = "responded"
  /\ pc' = "idle"
  /\ reading' = NoReading
  /\ handler' = "none"
  /\ event' = NoEvent
  /\ sent' = << >>
  /\ storeError' = NoError
  /\ response' = NoResponse
  /\ found' = table
  /\ UNCHANGED << table, now >>
  /\ UNCHANGED otherVars

(***************************************************************************)
(* Invocations that run at the same time as the one in hand.  A handler     *)
(* runs without interruption up to its await docClient.send; the store      *)
(* applies the command of one call atomically; other invocations may run    *)
(* between the two.                                                         *)
(***************************************************************************)
ConcurrentContexts == {Claims(u) : u \in Users}
ConcurrentPaths == {PathParameters(id) : id \in Uuids}
ConcurrentBodies ==
  {JsonBody(JsonObject(Str(<< "c" >>), Undefined, Undefined, {})),
   JsonBody(JsonObject(Undefined, Str(<< "d" >>), Undefined, {})),
   JsonBody(JsonObject(Undefined, Undefined, Completed, {})),
   JsonBody(JsonObject(Undefined, Undefined, Str(<< "done" >>), {}))}

\* a request: the handler it is routed to and its event
Call(name, e) == [handler |-> name, event |-> e]

\* updates and deletes of the same few keys
ConcurrentCalls ==
  {Call("updateTodoHandler", Event(c, path, b)) :
     c \in ConcurrentContexts, path \in ConcurrentPaths, b \in ConcurrentBodies}
    \cup {Call("deleteTodoHandler", Event(c, path, NoBody)) :
            c \in ConcurrentContexts, path \in ConcurrentPaths}

\* the requests another caller makes while the invocation in hand runs: a
\* create, a list, a status update and a delete
OtherCalls ==
  {Call("createTodoHandler",
        Event(Claims(Str(<< "u2" >>)), NullPathParameters,
              JsonBody(JsonObject(Str(<< "a" >>), Undefined, Undefined, {})))),
   Call("getTodosHandler", Event(Claims(Str(<< "u1" >>)), NullPathParameters, NullBody)),
   Call("updateTodoHandler",
        Event(Claims(Str(<< "u1" >>)), PathParameters(Str(<< "i1" >>)),
              JsonBody(JsonObject(Undefined, Undefined, Completed, {})))),
   Call("deleteTodoHandler",
        Event(Claims(Str(<< "u1" >>)), PathParameters(Str(<< "i1" >>)), NoBody))}

\* the handler of a concurrent invocation starts: it draws its uuid, reads
\* the clock and either answers at once (validation) or reaches
\* await docClient.send
Invoke(p, requested) ==
  /\ pc /= "responded"
  /\ calls[p].pc = "ready"
  /\ \E c \in requested, uuid \in Uuids \cup {Undefined} :
       LET r == Run(c.handler, c.event, table, uuid, now, NoError)
       IN /\ Drawn(c.handler, c.event, uuid)
          /\ Known(c.event)
          /\ calls' = [calls EXCEPT ![p] =
               [pc |-> IF Awaits(c.handler, c.event) THEN "awaiting" ELSE "done",
                handler |-> c.handler, event |-> c.event, clock |-> now,
                uuid |-> uuid, storeError |-> NoError,
                response |-> IF Awaits(c.handler, c.event) THEN NoResponse
                             ELSE r.response]]
  /\ UNCHANGED << table, found, now, pc, reading, handler, event, sent, storeError, response >>
  /\ UNCHANGED frontendVars

\* the store applies the command of the call, or rejects it, and the handler
\* answers
StoreCall(p) ==
  /\ pc /= "responded"
  /\ calls[p].pc = "awaiting"
  /\ \E outcome \in SomeOutcomes :
       LET r == Run(calls[p].handler, calls[p].event, table, calls[p].uuid,
                    calls[p].clock, outcome)
       IN /\ Answers(calls[p].handler, calls[p].event, outcome)
          /\ Cardinality(r.table) <= MaxItems
          /\ table' = r.table
          /\ calls' = [calls EXCEPT ![p] =
               [@ EXCEPT !.pc = "done", !.storeError = outcome,
                         !.response = r.response]]
  /\ UNCHANGED << found, now, pc, reading, handler, event, sent, storeError, response >>
  /\ UNCHANGED frontendVars

\* the response of the call has gone to its caller: the invocation is over
Returns(p) ==
  /\ calls[p].pc = "done"
  /\ calls' = [calls EXCEPT ![p] = NoCall]
  /\ UNCHANGED << table, found, now, pc, reading, handler, event, sent, storeError, response >>
  /\ UNCHANGED frontendVars

(***************************************************************************)
(* Invocations one after the other from an empty table, while other         *)
(* invocations run at the same time, one at a time.                         *)
(***************************************************************************)
Next ==
  \/ CreateTodo(SomeContexts, SomeCreateBodies)
  \/ GetTodos(SomeContexts)
  \/ UpdateTodo(SomeContexts, SomePathParameters, SomeUpdateBodies)
  \/ DeleteTodo(SomeContexts, SomePathParameters, {NoBody})
  \/ Resume(SomeOutcomes)
  \/ Invoke(1, OtherCalls)
  \/ StoreCall(1)
  \/ Returns(1)
  \/ Tick
  \/ Return

Spec == Init /\ [][Next]_vars

(***************************************************************************)
(* One invocation, of any request shape and any store outcome, on a table   *)
(* that earlier invocations have filled.                                    *)
(***************************************************************************)
\* the record createTodoHandler writes for user u under id at instant 0
Created(u, id, title) ==
  CHOOSE i \in createTodoHandler(
                 Event(Claims(u), NullPathParameters,
                       JsonBody(JsonObject(title, Undefined, Undefined, {}))),
                 {}, id, 0, NoError).table : TRUE

FilledTables ==
  {{}}
    \cup {{Created(u, id, Str(<< "a" >>))} : u \in Users, id \in Uuids}
    \cup {{Created(Str(<< "u1" >>), Str(<< "i1" >>), Str(<< "a" >>)),
           Created(Str(<< "u2" >>), Str(<< "i2" >>), Str(<< " ", "b" >>))}}

InitRequest ==
  /\ table \in FilledTables
  /\ found = table
  /\ now = 0
  /\ calls = NoCalls
  /\ FrontendInit
  /\ Idle

NextRequest ==
  \/ CreateTodo(AllContexts, AllBodies)
  \/ GetTodos(AllContexts)
  \/ UpdateTodo(AllContexts, AllPathParameters, AllBodies)
  \/ DeleteTodo(AllContexts, AllPathParameters, AllBodies)
  \/ Resume(StoreOutcomes)
  \/ Tick

SpecRequest == InitRequest /\ [][NextRequest]_vars

(***************************************************************************)
(* Two concurrent invocations of updateTodoHandler and deleteTodoHandler on *)
(* a table that earlier invocations have filled.                            *)
(***************************************************************************)
\* found keeps the table as it was before the invocations
InitConcurrent ==
  /\ table \in FilledTables
  /\ found = table
  /\ now = 0
  /\ calls = NoCalls
  /\ FrontendInit
  /\ Idle

NextConcurrent ==
  \/ \E p \in Procs : Invoke(p, ConcurrentCalls)
  \/ \E p \in Procs : StoreCall(p)
  \/ Tick

SpecConcurrent == InitConcurrent /\ [][NextConcurrent]_vars

(***************************************************************************)
(* The request in hand, as the claims speak of it.                          *)
(***************************************************************************)
Answered(name) == pc = "responded" /\ handler = name

\* the request carries a verified subject claim
Authenticated == Truthy(ClaimedSub(event))

\* the request carries a target id: path parameters with a non-empty id
HasTargetId ==
  event.pathParameters.kind = "object" /\ Truthy(event.pathParameters.id)

\* the body is the JSON text of an object
BodyIsObject == event.body.kind = "json" /\ event.body.value.kind = "object"

\* the request has no body at all
BodyAbsent == event.body.kind \in {"undefined", "null"}

\* a string that is non-empty after trimming
NonBlankString(v) == v.kind = "string" /\ Trim(v.str) /= << >>

IsString(v) == v.kind = "string"

Present(v) == v /= Undefined

\* an update request that passes validation: authenticated, with a target id,
\* its body an object holding at least one of title, description, status, and
\* every one of them it holds legal
UpdatePassesValidation ==
  /\ Authenticated
  /\ HasTargetId
  /\ BodyIsObject
  /\ \/ Present(event.body.value.title)
     \/ Present(event.body.value.description)
     \/ Present(event.body.value.status)
  /\ Present(event.body.value.title) => NonBlankString(event.body.value.title)
  /\ Present(event.body.value.description) => IsString(event.body.value.description)
  /\ Present(event.body.value.status) => event.body.value.status \in {Pending, Completed}

\* this step is an invocation of updateTodoHandler that passes validation on a
\* key that holds no record
UpdateOfMissingKey ==
  /\ pc = "awaiting"
  /\ pc' = "responded"
  /\ handler = "updateTodoHandler"
  /\ UpdatePassesValidation
  /\ ItemsAt(table, ClaimedSub(event), event.pathParameters.id) = {}

(***************************************************************************)
(* The claims.                                                              *)
(***************************************************************************)

\* C1: updateTodoHandler never creates a record: an update request that passes
\* validation and whose key (claimed owner, path id) holds no record leaves the
\* table without a record at that key and changes no other record, that is, it
\* leaves the table as it was.
C1_UpdateNeverCreates ==
  [][UpdateOfMissingKey => table' = table]_vars

\* C2: an update request that passes validation and whose key matches no
\* stored record is answered 404, whether the id is under no owner or only
\* under another owner (the store call resolving).
C2_UpdateOfMissingKeyIs404 ==
  [][(UpdateOfMissingKey /\ storeError' = NoError) => response'.statusCode = 404]_vars

\* C3: an authenticated update request with a path id whose body holds none of
\* title, description, status is answered 400 "No valid fields provided for
\* update." and sends nothing to the store.
C3_NoValidFieldsIs400 ==
  (/\ Answered("updateTodoHandler")
   /\ Authenticated
   /\ HasTargetId
   /\ BodyIsObject
   /\ ~Present(event.body.value.title)
   /\ ~Present(event.body.value.description)
   /\ ~Present(event.body.value.status))
  => /\ response.statusCode = 400
     /\ response.body.message = "No valid fields provided for update."
     /\ sent = << >>

\* C4: for create, list, update and delete, a request without a verified
\* subject claim is answered 401 and sends nothing to the store, whatever its
\* path parameters and body are.
C4_NoSubjectIs401 ==
  (pc = "responded" /\ ~Authenticated)
  => /\ response.statusCode = 401
     /\ sent = << >>

\* C4 happens: an update without claims whose path parameters are null and
\* whose body is malformed is answered 401
C4_Witness ==
  /\ Answered("updateTodoHandler")
  /\ event.requestContext = NoContext
  /\ event.pathParameters = NullPathParameters
  /\ event.body = MalformedBody
  /\ response.statusCode = 401

\* C5: a create request with a verified subject, a non-blank string title and
\* a description that is absent or a string is answered 201 (the store call
\* resolving); the returned item is the record written under (claimed owner,
\* generated id), with the title and description of the request (the empty
\* string when absent), status pending and createdAt = updatedAt, whatever
\* other keys the body holds.
C5_ValidCreateIs201 ==
  (/\ Answered("createTodoHandler")
   /\ Authenticated
   /\ BodyIsObject
   /\ NonBlankString(event.body.value.title)
   /\ \/ ~Present(event.body.value.description)
      \/ IsString(event.body.value.description)
   /\ storeError = NoError)
  => LET todo == response.body.todo IN
     /\ response.statusCode = 201
     /\ "todo" \in response.body.keys
     /\ todo.userId = ClaimedSub(event)
     /\ todo.todoId \in Uuids
     /\ ItemsAt(table, ClaimedSub(event), todo.todoId) = {todo}
     /\ sent = << PutCommand(todo) >>
     /\ todo.title = event.body.value.title
     /\ todo.description = IF Present(event.body.value.description)
                           THEN event.body.value.description ELSE Str(<< >>)
     /\ todo.status = Pending
     /\ Present(todo.createdAt)
     /\ todo.createdAt = todo.updatedAt

\* C5 happens: a create whose body also holds a status, ids and timestamps and
\* no description is answered 201 with a pending item
C5_Witness ==
  /\ Answered("createTodoHandler")
  /\ Authenticated
  /\ BodyIsObject
  /\ event.body.value.title = Str(<< " ", "b" >>)
  /\ ~Present(event.body.value.description)
  /\ event.body.value.status = Completed
  /\ event.body.value.others = OtherKeys
  /\ response.statusCode = 201
  /\ response.body.todo.status = Pending
  /\ response.body.todo \in table

\* C6: an authenticated create request whose title is missing (absent from the
\* body, or no body at all), empty, only whitespace or not a string is answered
\* 400 whatever its description is, and writes nothing.
C6_MissingTitleIs400 ==
  (/\ Answered("createTodoHandler")
   /\ Authenticated
   /\ \/ BodyAbsent
      \/ BodyIsObject /\ ~NonBlankString(event.body.value.title))
  => /\ response.statusCode = 400
     /\ sent = << >>

\* every command the invocation sent writes no status other than pending and
\* completed
SentStatusesLegal ==
  \A k \in 1..Len(sent) :
    /\ sent[k].name = "PutCommand" => sent[k].Item.status \in {Pending, Completed}
    /\ (sent[k].name = "UpdateCommand"
          /\ \E n \in 1..Len(sent[k].set) : sent[k].set[n] = "status")
       => sent[k].values.status \in {Pending, Completed}

IllegalStatus ==
  /\ BodyIsObject
  /\ Present(event.body.value.status)
  /\ event.body.value.status \notin {Pending, Completed}

\* C7 as amended: an authenticated update request with a path id whose body
\* holds a status outside {pending, completed} (another string, or a
\* non-string such as null) is answered 400 and sends nothing; and no command
\* any handler sends carries a status outside {pending, completed}.
C7_IllegalStatusIs400 ==
  /\ (Answered("updateTodoHandler") /\ Authenticated /\ HasTargetId /\ IllegalStatus)
     => (response.statusCode = 400 /\ sent = << >>)
  /\ pc = "responded" => SentStatusesLegal

\* C7 as stated: every update request whose body holds a status outside
\* {pending, completed} is answered 400, and no command carries such a status.
C7_Original ==
  /\ (Answered("updateTodoHandler") /\ IllegalStatus) => response.statusCode = 400
  /\ pc = "responded" => SentStatusesLegal

\* C7 happens: status null beside a legal title is answered 400
C7_Witness ==
  /\ Answered("updateTodoHandler")
  /\ Authenticated
  /\ HasTargetId
  /\ BodyIsObject
  /\ event.body.value.status = Null
  /\ event.body.value.title = Str(<< "a" >>)
  /\ response.statusCode = 400
  /\ sent = << >>

IllegalTitle ==
  BodyIsObject /\ Present(event.body.value.title)
    /\ ~NonBlankString(event.body.value.title)

IllegalDescription ==
  BodyIsObject /\ Present(event.body.value.description)
    /\ ~IsString(event.body.value.description)

\* C8 as amended: for an authenticated update request with a path id: a body
\* holding a title that is not a string non-empty after trimming, or a
\* description that is not a string, is answered 400 and sends nothing, even
\* when its other fields are legal; a body whose title, description and status
\* are each absent or legal (the empty description included) is not rejected:
\* it sends its one command.
C8_IllegalTitleOrDescriptionIs400 ==
  (Answered("updateTodoHandler") /\ Authenticated /\ HasTargetId /\ BodyIsObject)
  => /\ (IllegalTitle \/ IllegalDescription)
        => (response.statusCode = 400 /\ sent = << >>)
     /\ (~IllegalTitle /\ ~IllegalDescription /\ ~IllegalStatus) => Len(sent) = 1

\* C8 as stated: for every update request, a body holding an illegal title or
\* an illegal description is answered 400 and sends nothing.
C8_Original ==
  (Answered("updateTodoHandler") /\ (IllegalTitle \/ IllegalDescription))
  => (response.statusCode = 400 /\ sent = << >>)

\* C8 happens: a blank title beside a legal description and status is
\* answered 400
C8_Witness ==
  /\ Answered("updateTodoHandler")
  /\ Authenticated
  /\ HasTargetId
  /\ BodyIsObject
  /\ event.body.value.title = Str(<< " " >>)
  /\ event.body.value.description = Str(<< "d" >>)
  /\ event.body.value.status = Completed
  /\ response.statusCode = 400
  /\ sent = << >>

\* C9: an authenticated create request with a valid title whose body holds a
\* description that is not a string (0, false and null included) is answered
\* 400 and writes nothing.
C9_NonStringDescriptionIs400 ==
  (/\ Answered("createTodoHandler")
   /\ Authenticated
   /\ BodyIsObject
   /\ NonBlankString(event.body.value.title)
   /\ IllegalDescription)
  => /\ response.statusCode = 400
     /\ sent = << >>

\* C10: an authenticated update or delete request that carries no target id
\* (path parameters absent or null, no id key, or an empty id) is answered 400
\* and sends nothing, whatever its body is.
C10_NoTargetIdIs400 ==
  (/\ pc = "responded"
   /\ handler \in {"updateTodoHandler", "deleteTodoHandler"}
   /\ Authenticated
   /\ ~HasTargetId)
  => /\ response.statusCode = 400
     /\ sent = << >>

\* the key (claimed owner, path id) of the request in hand, and the records
\* the invocation found at it
TargetKeyHeld == ItemsAt(found, ClaimedSub(event), PathId(event))

\* C11: a delete request (authenticated, with a path id, the store call
\* resolving) on a key that holds a record is answered 200 and removes exactly
\* that record; on a key that holds none (never existed, already deleted, or
\* held only under another owner) it is answered 404 and leaves the table as
\* it was; after a successful delete the key holds no record, so that the same
\* delete repeated is answered 404.
C11_DeleteRemovesOrIs404 ==
  (/\ Answered("deleteTodoHandler")
   /\ Authenticated
   /\ HasTargetId
   /\ storeError = NoError)
  => /\ TargetKeyHeld /= {}
        => /\ response.statusCode = 200
           /\ table = found \ TargetKeyHeld
           /\ ItemsAt(table, ClaimedSub(event), PathId(event)) = {}
     /\ TargetKeyHeld = {}
        => /\ response.statusCode = 404
           /\ table = found

\* C11 happens: a delete answered 200 removed the record of its owner and left
\* the record another owner holds under the same id
C11_Witness ==
  /\ Answered("deleteTodoHandler")
  /\ response.statusCode = 200
  /\ TargetKeyHeld /= {}
  /\ \E i \in table : i.todoId = PathId(event) /\ i.userId /= ClaimedSub(event)

\* the records of the response in hand: the todo of { message, todo } and the
\* todos of { todos }
ReturnedItems ==
  (IF "todo" \in response.body.keys THEN {response.body.todo} ELSE {})
    \cup {response.body.todos[k] : k \in 1..Len(response.body.todos)}

\* the records of a table that belong to owners other than userId
OfOthers(records, userId) == {i \in records : i.userId /= userId}

\* C12: over every sequence of create, list, update and delete requests, a
\* request with claimed owner U leaves the records of every other owner
\* exactly as they were (none modified, deleted or added), returns no record
\* of another owner, and every command it sends to the store carries U as
\* userId.
C12_OwnerIsolation ==
  pc = "responded"
  => /\ OfOthers(table, ClaimedSub(event)) = OfOthers(found, ClaimedSub(event))
     /\ \A i \in ReturnedItems : i.userId = ClaimedSub(event)
     /\ \A k \in 1..Len(sent) : sent[k].userId = ClaimedSub(event)

\* C12 happens: a list request is answered with records of its owner while
\* the table holds a record of another owner
C12_Witness ==
  /\ Answered("getTodosHandler")
  /\ response.statusCode = 200
  /\ ReturnedItems /= {}
  /\ OfOthers(table, ClaimedSub(event)) /= {}

\* C13: a list request with claimed owner U (the store call resolving) is
\* answered 200 with { todos }, holding each record stored under U once and
\* no other record, the empty sequence when U has none; the table is left as
\* it was, so a record U has just created is listed as it was stored.
C13_ListReturnsOwnRecords ==
  (/\ Answered("getTodosHandler")
   /\ Authenticated
   /\ storeError = NoError)
  => /\ response.statusCode = 200
     /\ response.body.keys = {"todos"}
     /\ ReturnedItems = {i \in table : i.userId = ClaimedSub(event)}
     /\ Len(response.body.todos) = Cardinality(ReturnedItems)
     /\ table = found

\* C13 happens: a list request is answered with the two records of its owner
C13_Witness ==
  /\ Answered("getTodosHandler")
  /\ response.statusCode = 200
  /\ Len(response.body.todos) = 2
  /\ \E i \in ReturnedItems : i.status = Pending /\ i.title = Str(<< " ", "b" >>)

\* the update in hand was answered 200 and its key held a record
UpdatedExisting ==
  /\ Answered("updateTodoHandler")
  /\ response.statusCode = 200
  /\ TargetKeyHeld /= {}

\* the value an update gives a field: the one of the body when the body holds
\* the field, the one the record had otherwise
FieldAfter(supplied, old) == IF Present(supplied) THEN supplied ELSE old

\* C14: an update answered 200 on a key that held a record sets title,
\* description and status to the values of the body for those the body holds
\* and leaves the others as they were, sets updatedAt to the instant of the
\* update, leaves userId, todoId and createdAt as they were, returns the record
\* as it is stored after the update, and changes no other record.
C14_UpdateSetsSuppliedFields ==
  UpdatedExisting
  => LET old == CHOOSE i \in TargetKeyHeld : TRUE
         new == response.body.todo
         requestBody == JsonParse(event)
     IN /\ response.body.keys = {"message", "todo"}
        /\ table = (found \ {old}) \cup {new}
        /\ new.title = FieldAfter(requestBody.title, old.title)
        /\ new.description = FieldAfter(requestBody.description, old.description)
        /\ new.status = FieldAfter(requestBody.status, old.status)
        /\ new.updatedAt = ToISOString(reading.clock)
        /\ new.userId = old.userId
        /\ new.todoId = old.todoId
        /\ new.createdAt = old.createdAt

\* C14 happens: an update whose body holds a description and keys no handler
\* reads, and neither title nor status, changed the description of a record
C14_Witness ==
  /\ UpdatedExisting
  /\ JsonParse(event).title = Undefined
  /\ JsonParse(event).status = Undefined
  /\ JsonParse(event).others = OtherKeys
  /\ response.body.todo.description = Str(<< "d" >>)
  /\ \E i \in TargetKeyHeld : i.description = Str(<< >>) /\ i.title = response.body.todo.title

\* C15: over every sequence of requests, an update request leaves every
\* record of the table under its key (userId, todoId) with the createdAt it
\* had, whatever the body holds, userId, todoId and createdAt keys included.
C15_UpdateKeepsKeyAndCreatedAt ==
  Answered("updateTodoHandler")
  => \A i \in found :
       \E j \in table : /\ j.userId = i.userId
                        /\ j.todoId = i.todoId
                        /\ j.createdAt = i.createdAt

\* C15 happens: an update whose body holds userId, todoId and createdAt keys
\* was answered 200 at a later instant than the record was created at, and
\* the record keeps its createdAt
C15_Witness ==
  /\ UpdatedExisting
  /\ JsonParse(event).others = OtherKeys
  /\ response.body.todo.createdAt = ToISOString(0)
  /\ response.body.todo.updatedAt = ToISOString(1)
  /\ response.body.todo \in table

\* the instant a timestamp written by toISOString denotes; ISO timestamps
\* compare as their instants do
InstantOf(timestamp) == timestamp.num

\* C16: after every update answered 200 on a key that held a record, the
\* updatedAt returned and stored is strictly greater than the updatedAt the
\* record had before, also when the update immediately follows the create or
\* another update.
C16_UpdatedAtStrictlyGreater ==
  UpdatedExisting
  => /\ response.body.todo \in table
     /\ \A old \in TargetKeyHeld :
          InstantOf(response.body.todo.updatedAt) > InstantOf(old.updatedAt)

\* C17: over every sequence of requests, for every key: a record enters
\* existence only through a create and is then pending; the status of a
\* record changes only through an update answered 200 whose body holds
\* status, to that value, one of pending and completed (so an update of title
\* or description alone leaves it); a record leaves existence only through a
\* delete answered 200, and after a delete answered 200 its key holds none.
C17_ItemLifecycle ==
  pc = "responded"
  => /\ \A j \in table :
          ItemsAt(found, j.userId, j.todoId) = {}
          => handler = "createTodoHandler" /\ j.status = Pending
     /\ \A i \in found : \A j \in ItemsAt(table, i.userId, i.todoId) :
          j.status /= i.status
          => /\ handler = "updateTodoHandler"
             /\ response.statusCode = 200
             /\ Present(JsonParse(event).status)
             /\ j.status = JsonParse(event).status
             /\ j.status \in {Pending, Completed}
     /\ \A i \in found :
          ItemsAt(table, i.userId, i.todoId) = {}
          => handler = "deleteTodoHandler" /\ response.statusCode = 200
     /\ (handler = "deleteTodoHandler" /\ response.statusCode = 200)
          => ItemsAt(table, ClaimedSub(event), PathId(event)) = {}

\* the store call of the invocation in hand was rejected
StoreFailed == pc = "responded" /\ Rejects(storeError)

\* the failure is a ValidationException whose message reports a key-schema
\* mismatch
ReportsKeySchemaMismatch(error) ==
  error.name = "ValidationException" /\ Includes(error.message, KeySchemaPhrase)

\* the generic message of each operation
GenericMessage(name) ==
  CASE name = "createTodoHandler" ->
         "Failed to create To-Do item. Please try again later."
    [] name = "getTodosHandler" ->
         "Failed to retrieve To-Do items. Please try again later."
    [] name = "updateTodoHandler" ->
         "Failed to update To-Do item. Please try again later."
    [] name = "deleteTodoHandler" ->
         "Failed to delete To-Do item. Please try again later."
    [] OTHER -> ""

\* C18: when the store call is rejected, update answers 400 "Invalid To-Do
\* ID or data format." if the failure is a ValidationException whose message
\* reports a key-schema mismatch; every other failure, in create, list,
\* update or delete, is answered 500 with the generic message of the
\* operation; the table is left as it was.
C18_StoreFailureMapping ==
  StoreFailed
  => /\ response.body.keys = {"message"}
     /\ table = found
     /\ IF handler = "updateTodoHandler" /\ ReportsKeySchemaMismatch(storeError)
        THEN /\ response.statusCode = 400
             /\ response.body.message = "Invalid To-Do ID or data format."
        ELSE /\ response.statusCode = 500
             /\ response.body.message = GenericMessage(handler)

\* C18 happens: an update whose store call was rejected for a key-schema
\* mismatch is answered 400
C18_Witness ==
  /\ StoreFailed
  /\ handler = "updateTodoHandler"
  /\ storeError = KeySchemaMismatch
  /\ response.statusCode = 400
  /\ Len(sent) = 1

\* the failures a store call can be rejected with
StoreFailures == {o \in StoreOutcomes : Rejects(o)}

\* the response the invocation in hand would have given, on the same event,
\* uuid and clock reading, had it found the table holding records and had its
\* store call ended in outcome
ResponseOn(records, outcome) ==
  CASE handler = "createTodoHandler" ->
         createTodoHandler(event, records, reading.uuid, reading.clock, outcome).response
    [] handler = "getTodosHandler" ->
         getTodosHandler(event, records, outcome).response
    [] handler = "updateTodoHandler" ->
         updateTodoHandler(event, records, reading.clock, outcome).response
    [] handler = "deleteTodoHandler" ->
         deleteTodoHandler(event, records, outcome).response
    [] OTHER -> NoResponse

ResponseHad(outcome) == ResponseOn(found, outcome)

\* C19: for each operation, a request whose store call is rejected receives
\* the same response (status, headers and body) whatever the name and the
\* message of the failure are, except that update answers a key-schema
\* mismatch differently from the other failures.
C19_FailureContentNotExposed ==
  StoreFailed
  => \A other \in StoreFailures :
       \/ /\ handler = "updateTodoHandler"
          /\ ReportsKeySchemaMismatch(other) /= ReportsKeySchemaMismatch(storeError)
       \/ ResponseHad(other) = response

\* C19 happens: a create whose store call was rejected with a failure that
\* quotes the key-schema phrase is answered as any other failure is
C19_Witness ==
  /\ StoreFailed
  /\ handler = "createTodoHandler"
  /\ storeError = QuotedKeySchema
  /\ ResponseHad(ServiceDown) = response
  /\ response.statusCode = 500

\* the table the invocation found, without the records other owners hold
\* under the path id
WithoutIdOfOthers ==
  {i \in found : ~(i.todoId = PathId(event) /\ i.userId /= ClaimedSub(event))}

\* C20: for an update or delete request by owner U on id X where U holds no
\* record under X, the response (status, headers and body) is the one the
\* same request receives on the table without the records other owners hold
\* under X: whether X exists under another owner does not show.
C20_NotFoundIsNotYours ==
  (/\ pc = "responded"
   /\ handler \in {"updateTodoHandler", "deleteTodoHandler"}
   /\ Authenticated
   /\ HasTargetId
   /\ TargetKeyHeld = {})
  => ResponseOn(WithoutIdOfOthers, storeError) = response

\* C20 happens: a delete of an id that another owner holds is answered 404,
\* as it is when nobody holds the id
C20_Witness ==
  /\ Answered("deleteTodoHandler")
  /\ Authenticated
  /\ HasTargetId
  /\ TargetKeyHeld = {}
  /\ WithoutIdOfOthers /= found
  /\ response.statusCode = 404

\* the statuses listed for each operation
ListedStatuses(name) ==
  CASE name = "createTodoHandler" -> {201, 400, 401, 500}
    [] name = "getTodosHandler" -> {200, 401, 500}
    [] name = "updateTodoHandler" -> {200, 400, 401, 404, 500}
    [] name = "deleteTodoHandler" -> {200, 400, 401, 404, 500}
    [] OTHER -> {}

\* C21: every invocation of create, list, update or delete ends in a response
\* (an exception thrown inside the handler is caught and answered) whose
\* status is one of those listed for the operation, for every request shape
\* and every store outcome.
C21_StatusIsListed ==
  pc = "responded"
  => response.statusCode \in ListedStatuses(handler)

\* C21 happens: a delete whose path parameters are null, which throws inside
\* the handler, is answered 500
C21_Witness ==
  /\ Answered("deleteTodoHandler")
  /\ Authenticated
  /\ event.pathParameters = NullPathParameters
  /\ response.statusCode = 500
  /\ sent = << >>

\* the messages of the 400 answers given before any store call
ValidationMessages ==
  {"Title is required and must be a non-empty string.",
   "Title must be a non-empty string.",
   "Description must be a string.",
   "Status must be 'pending' or 'completed'.",
   "To-Do ID is required.",
   "No valid fields provided for update."}

\* the response in hand is a validation 400
Validation400 ==
  response.statusCode = 400 /\ response.body.message \in ValidationMessages

\* C22: every invocation issues at most one store operation: none when it
\* answers 401 or a validation 400 (missing id, failed field validation,
\* empty field set), exactly one otherwise, also when that operation fails.
C22_AtMostOneStoreOperation ==
  pc = "responded"
  => /\ Len(sent) <= 1
     /\ Len(sent) = 0 <=> (response.statusCode = 401 \/ Validation400)

\* both concurrent invocations have answered, their store calls resolved
BothDone ==
  \A p \in Procs : calls[p].pc = "done" /\ calls[p].storeError = NoError

\* the key (claimed owner, path id) of a concurrent invocation
CallKey(p) == << ClaimedSub(calls[p].event), PathId(calls[p].event) >>

\* invocations p and q are of the handlers named, on one key that held a
\* record before either ran, and neither was rejected by validation
ConcurrentOnHeldKey(p, nameP, q, nameQ) ==
  /\ BothDone
  /\ p /= q
  /\ calls[p].handler = nameP
  /\ calls[q].handler = nameQ
  /\ CallKey(p) = CallKey(q)
  /\ ItemsAt(found, CallKey(p)[1], CallKey(p)[2]) /= {}
  /\ calls[p].response.statusCode /= 400
  /\ calls[q].response.statusCode /= 400

\* C23: when an update and a delete of one key that holds a record run
\* concurrently, the answers are update 200 and delete 200, or delete 200 and
\* update 404, and once both have answered the key holds no record.
C23_DeletedItemStaysDeleted ==
  \A p, q \in Procs :
    ConcurrentOnHeldKey(p, "updateTodoHandler", q, "deleteTodoHandler")
    => /\ calls[q].response.statusCode = 200
       /\ calls[p].response.statusCode \in {200, 404}
       /\ ItemsAt(table, CallKey(p)[1], CallKey(p)[2]) = {}

\* the table after the store has applied the command of invocation p to
\* records
Applied(records, p) ==
  Run(calls[p].handler, calls[p].event, records, calls[p].uuid, calls[p].clock,
      calls[p].storeError).table

\* the value a field has after two updates that are both applied: the one of
\* the only update whose body holds it, the one it had when neither does
FieldAfterBoth(suppliedP, suppliedQ, old, final) ==
  /\ (Present(suppliedP) /\ ~Present(suppliedQ)) => final = suppliedP
  /\ (Present(suppliedQ) /\ ~Present(suppliedP)) => final = suppliedQ
  /\ (~Present(suppliedP) /\ ~Present(suppliedQ)) => final = old
  /\ (Present(suppliedP) /\ Present(suppliedQ)) => final \in {suppliedP, suppliedQ}

\* C24: when two valid updates of one record run concurrently, each is
\* applied whole by its one store call: once both have answered (200) the
\* table is the one that applying the two commands one after the other, in
\* one of the two orders, gives, and a field that only one of the bodies holds
\* has the value of that body in the final record (no update is lost).
C24_ConcurrentUpdatesBothApplied ==
  \A p, q \in Procs :
    ConcurrentOnHeldKey(p, "updateTodoHandler", q, "updateTodoHandler")
    => /\ calls[p].response.statusCode = 200
       /\ calls[q].response.statusCode = 200
       /\ table \in {Applied(Applied(found, p), q), Applied(Applied(found, q), p)}
       /\ \A old \in ItemsAt(found, CallKey(p)[1], CallKey(p)[2]) :
          \E final \in ItemsAt(table, CallKey(p)[1], CallKey(p)[2]) :
            LET bodyP == JsonParse(calls[p].event)
                bodyQ == JsonParse(calls[q].event)
            IN /\ FieldAfterBoth(bodyP.title, bodyQ.title, old.title, final.title)
               /\ FieldAfterBoth(bodyP.description, bodyQ.description,
                                 old.description, final.description)
               /\ FieldAfterBoth(bodyP.status, bodyQ.status, old.status, final.status)
               /\ final.updatedAt \in {ToISOString(calls[p].clock),
                                       ToISOString(calls[q].clock)}
               /\ final.createdAt = old.createdAt

\* C24 happens: an update of the title and an update of the status of one
\* record ran concurrently, the one that read the clock first applied last,
\* and the record holds both
C24_Witness ==
  /\ ConcurrentOnHeldKey(1, "updateTodoHandler", 2, "updateTodoHandler")
  /\ JsonParse(calls[1].event).title = Str(<< "c" >>)
  /\ JsonParse(calls[2].event).status = Completed
  /\ calls[1].clock < calls[2].clock
  /\ calls[1].response.body.todo.status = Completed
  /\ \E final \in table :
       /\ KeyOf(final) = CallKey(1)
       /\ final.title = Str(<< "c" >>)
       /\ final.status = Completed
       /\ final.updatedAt = ToISOString(calls[1].clock)

\* a record with all seven attributes, a non-blank string title, a string
\* description and a status of pending or completed
WellFormed(item) ==
  /\ \A a \in AttributeNames : Present(item[a])
  /\ NonBlankString(item.title)
  /\ IsString(item.description)
  /\ item.status \in {Pending, Completed}

\* C25: after every sequence of create, update and delete requests, updates
\* of ids that do not exist included, every record of the table has userId,
\* todoId, title, description, status, createdAt and updatedAt, its title a
\* non-blank string and its status pending or completed.
C25_RecordsWellFormed ==
  \A i \in table : WellFormed(i)

\* C26: a create, update or delete request answered with a status other
\* than 200 and 201 (400, 401, 404 or 500) leaves the table exactly as it was.
C26_FailureLeavesStoreUnchanged ==
  (/\ pc = "responded"
   /\ handler \in {"createTodoHandler", "updateTodoHandler", "deleteTodoHandler"}
   /\ response.statusCode \notin {200, 201})
  => table = found

\* C26 happens: an update of a held key whose store call was rejected is
\* answered 500 and the record is as it was
C26_Witness ==
  /\ Answered("updateTodoHandler")
  /\ storeError = ServiceDown
  /\ response.statusCode = 500
  /\ TargetKeyHeld /= {}
  /\ TargetKeyHeld \subseteq table
  /\ table = found

\* the records of a table that belong to userId
OfOwner(records, userId) == {i \in records : i.userId = userId}

\* C27: a create answered 201 adds exactly one record, the one it returns,
\* under a key of the claimed owner that held no record, and leaves every
\* record that was there as it was: the owner has one record more.
C27_CreateAddsOneRecord ==
  (Answered("createTodoHandler") /\ response.statusCode = 201)
  => LET new == response.body.todo
     IN /\ new.userId = ClaimedSub(event)
        /\ ItemsAt(found, new.userId, new.todoId) = {}
        /\ new \notin found
        /\ table = found \cup {new}
        /\ Cardinality(OfOwner(table, new.userId))
             = Cardinality(OfOwner(found, new.userId)) + 1

\* C27 happens: a create answered 201 for an owner who already held a record
C27_Witness ==
  /\ Answered("createTodoHandler")
  /\ response.statusCode = 201
  /\ Cardinality(OfOwner(found, ClaimedSub(event))) = 1
  /\ Cardinality(OfOwner(table, ClaimedSub(event))) = 2

(***************************************************************************)
(* The frontend.  A call of a handler runs without interruption up to its   *)
(* next await; what it awaits settles in a later step, and the user, the    *)
(* other handlers and the API go on in between.                             *)
(*                                                                          *)
(* The to-do page (initTodoHandlers): a call of createTodo, fetchTodos,     *)
(* updateTodoStatus or deleteTodo waits in await fetchAuthSession(); when   *)
(* the session resolves the handler makes its API request, waits in         *)
(* await post(...) (get, put, del) and then in await result.response; the   *)
(* API invokes the Lambda handler above for the signed-in user, which reads *)
(* the clock and waits for the store; when the answer arrives the handler   *)
(* of the page waits in await raw.body.json() and goes on when the body is  *)
(* read.  Sessions resolve and answers arrive in any order.                 *)
(***************************************************************************)
\* the API requests one page makes, counting for every call that waits the
\* request it goes on to make and for every create, update and delete the
\* fetchTodos that follows it
MaxRequests == 4

\* session.tokens.idToken of the signed-in user, as the authorizer of the
\* API hands it to the Lambda handlers
FrontendUser == Claims(Str(<< "u1" >>))

\* what the user may have typed in the two inputs
TitleInputs == {<< >>, << " " >>, << " ", "a", " " >>}
DescriptionInputs == {<< >>, << "d", " " >>}
\* the two inputs together
TodoInputs ==
  {<< << >>, << >> >>, << << " " >>, << >> >>,
   << << " ", "a", " " >>, << "d", " " >> >>}

\* className of the messages
RedText == "text-sm mt-4 text-center text-red-500"
GreenText == "text-sm mt-4 text-center text-green-500"
OrangeText == "text-sm mt-4 text-center text-orange-500"

\* error.message || 'Unknown error'
ErrorMessage(message) == IF message = "" THEN "Unknown error" ELSE message

\* error.message of the TypeError that session.tokens.idToken throws when
\* fetchAuthSession() resolves with a session without tokens
NoTokens == "Cannot read properties of undefined (reading 'idToken')"

\* error.message of what a handler may catch after await fetchAuthSession():
\* the session has no tokens, or fetchAuthSession() has rejected
SessionErrors == {NoTokens, "The user is not authenticated", ""}

\* error.message of the rejections of a request that got no answer
RequestErrors == {"Network Error"}

\* error.message of the rejections of raw.body.json() for an answer whose
\* body cannot be read
JsonErrors == {"body is not JSON"}

\* a call of createTodo, fetchTodos, updateTodoStatus or deleteTodo that
\* waits in await fetchAuthSession(): the arguments of the API request it goes
\* on to make and, for fetchTodos, the number of the call
HandlerCall(method, pathParameters, body, fetch) ==
  [method |-> method, pathParameters |-> pathParameters, body |-> body,
   fetch |-> fetch]

\* the request of post, get, put or del that call c makes, in flight; the
\* stage is "made" while the handler waits in await post(...), "sent" when
\* it has reached await result.response, "invoked" and "answered" as the
\* Lambda handler goes on, "parsing" when the handler waits in
\* await raw.body.json(); clock and uuid are what the Lambda handler has read
\* when it waits for the store
Request(seq, c) ==
  [seq |-> seq, method |-> c.method, pathParameters |-> c.pathParameters,
   body |-> c.body, fetch |-> c.fetch, stage |-> "made", clock |-> 0,
   uuid |-> Undefined, response |-> NoResponse]

\* await result.response resolves for a 2xx answer and rejects otherwise
Succeeded(r) ==
  /\ r.stage = "answered"
  /\ r.response.statusCode >= 200
  /\ r.response.statusCode <= 299

\* a handler waits in await post(...) (get, put, del): it goes on in a
\* microtask, before the event loop takes the next event of the user
Resuming == \E r \in requests : r.stage = "made"

\* error.message of what await result.response rejects with for an answer
\* that is not 2xx: the message in the body of the answer
Rejection(r) == r.response.body.message

\* the calls but the k-th
Settled(waiting, k) ==
  SubSeq(waiting, 1, k - 1) \o SubSeq(waiting, k + 1, Len(waiting))

\* the creates, updates and deletes whose fetchTodos is still to be called
Mutations ==
  Cardinality({k \in 1..Len(sessions) : sessions[k].method /= "GET"})
    + Cardinality({r \in requests : r.method /= "GET"})

\* n more requests can be made, the ones to come of the calls under way counted
Room(n) == issued + Len(sessions) + Mutations + n <= MaxRequests

\* fetchTodos is called and runs to await fetchAuthSession(), the other
\* calls that wait there being waiting
fetchTodos(waiting) ==
  /\ todoList' = ListView("Loading To-Dos...", << >>)
  /\ sessions' = Append(waiting, HandlerCall("GET", NullPathParameters, NoBody,
                                             issuedFetch + 1))
  /\ issuedFetch' = issuedFetch + 1

\* showTodoApp of uiHandlers.js: the sections change places and
\* fetchTodosRef is called
showTodoApp ==
  /\ hidden' = (hidden \cup {"authSection"}) \ {"todoAppSection"}
  /\ fetchTodos(sessions)

\* showAuthSection of uiHandlers.js: the sections change places and the
\* inputs of the form are cleared
showAuthSection ==
  /\ hidden' = (hidden \ {"authSection"}) \cup {"todoAppSection"}
  /\ emailInput' = ""
  /\ passwordInput' = ""
  /\ confirmationCodeInput' = ""

\* the user types in the inputs
TypeTodo ==
  /\ ~Resuming
  /\ \E title \in TitleInputs, description \in DescriptionInputs :
       /\ << title, description >> \in TodoInputs
       /\ << title, description >> /= << newTodoTitleInput, newTodoDescriptionInput >>
       /\ newTodoTitleInput' = title
       /\ newTodoDescriptionInput' = description
  /\ UNCHANGED << todoMessage, todoList, sessions, requests, issued, issuedFetch,
                  latestResult >>
  /\ UNCHANGED << backendVars, authPageVars >>

\* the click on the add button: createTodo up to await fetchAuthSession(), or
\* to its return when the title is empty
createTodo ==
  LET title == Trim(newTodoTitleInput)
      description == Trim(newTodoDescriptionInput)
  IN /\ ~Resuming
     /\ IF title = << >>
        THEN /\ todoMessage' = Message(<< "To-Do title cannot be empty." >>, RedText)
             /\ UNCHANGED sessions
        ELSE /\ Room(2)
             /\ todoMessage' = Message(<< >>, todoMessage.className)
             /\ sessions' = Append(sessions,
                  HandlerCall("POST", NullPathParameters,
                              JsonBody(JsonObject(Str(title), Str(description),
                                                  Undefined, {})), 0))
     /\ UNCHANGED << newTodoTitleInput, newTodoDescriptionInput, todoList, requests,
                     issued, issuedFetch, latestResult >>
     /\ UNCHANGED << backendVars, authPageVars >>

\* the click on the toggle button of a rendered to-do, which carries the id
\* and the status the to-do was rendered with: updateTodoStatus up to
\* await fetchAuthSession()
updateTodoStatus ==
  /\ ~Resuming
  /\ Room(2)
  /\ \E k \in 1..Len(todoList.todos) :
       LET todoId == todoList.todos[k].todoId
           currentStatus == todoList.todos[k].status
           newStatus == IF currentStatus = Pending THEN Completed ELSE Pending
       IN sessions' = Append(sessions,
            HandlerCall("PUT", PathParameters(todoId),
                        JsonBody(JsonObject(Undefined, Undefined, newStatus, {})), 0))
  /\ UNCHANGED << newTodoTitleInput, newTodoDescriptionInput, todoMessage,
                  todoList, requests, issued, issuedFetch, latestResult >>
  /\ UNCHANGED << backendVars, authPageVars >>

\* the click on the delete button of a rendered to-do: deleteTodo up to
\* await fetchAuthSession()
deleteTodo ==
  /\ ~Resuming
  /\ Room(2)
  /\ \E k \in 1..Len(todoList.todos) :
       sessions' = Append(sessions,
         HandlerCall("DELETE", PathParameters(todoList.todos[k].todoId), NoBody, 0))
  /\ UNCHANGED << newTodoTitleInput, newTodoDescriptionInput, todoMessage,
                  todoList, requests, issued, issuedFetch, latestResult >>
  /\ UNCHANGED << backendVars, authPageVars >>

\* await fetchAuthSession() resolves with the tokens of the signed-in user
\* for a call that waits: the handler calls post (get, put, del), which makes
\* the API request, and waits in await post(...)
SessionResolves ==
  /\ \E k \in 1..Len(sessions) :
       /\ sessions' = Settled(sessions, k)
       /\ requests' = requests \cup {Request(issued + 1, sessions[k])}
  /\ issued' = issued + 1
  /\ UNCHANGED << newTodoTitleInput, newTodoDescriptionInput, todoMessage, todoList,
                  issuedFetch, latestResult >>
  /\ UNCHANGED << backendVars, authPageVars >>

\* the catch block of the handler of call c, the error caught having the
\* message given: fetchTodos writes the list, the other handlers the message
Caught(c, message) ==
  /\ IF c.method = "GET"
     THEN /\ todoList' = ListView("Failed to load To-Dos. Please sign in again.", << >>)
          /\ latestResult' = IF c.fetch = issuedFetch THEN todoList' ELSE latestResult
          /\ UNCHANGED todoMessage
     ELSE /\ todoMessage' =
               Message(<< CASE c.method = "POST" -> "Failed to create To-Do: "
                            [] c.method = "PUT" -> "Failed to update To-Do status: "
                            [] OTHER -> "Failed to delete To-Do: ",
                          ErrorMessage(message) >>, RedText)
          /\ UNCHANGED << todoList, latestResult >>
  /\ UNCHANGED << newTodoTitleInput, newTodoDescriptionInput, issued, issuedFetch >>

\* await post(...) (get, put, del) resumes: the handler reaches
\* await result.response
RequestAwaited ==
  /\ \E r \in requests :
       /\ r.stage = "made"
       /\ requests' = (requests \ {r}) \cup {[r EXCEPT !.stage = "sent"]}
  /\ UNCHANGED << newTodoTitleInput, newTodoDescriptionInput, todoMessage, todoList,
                  sessions, issued, issuedFetch, latestResult >>
  /\ UNCHANGED << backendVars, authPageVars >>

\* await fetchAuthSession() rejects for a call that waits, or resolves with a
\* session without tokens and session.tokens.idToken throws: the handler
\* makes no request and runs its catch block
SessionFails ==
  /\ \E k \in 1..Len(sessions), message \in SessionErrors :
       /\ sessions' = Settled(sessions, k)
       /\ Caught(sessions[k], message)
  /\ UNCHANGED requests
  /\ UNCHANGED << backendVars, authPageVars >>

\* the Lambda handler the API routes a request to
HandlerOf(method) ==
  CASE method = "POST" -> "createTodoHandler"
    [] method = "GET" -> "getTodosHandler"
    [] method = "PUT" -> "updateTodoHandler"
    [] OTHER -> "deleteTodoHandler"

\* the event the API hands the Lambda handler for request r
EventOf(r) == Event(FrontendUser, r.pathParameters, r.body)

\* the handlers that read the clock before their store call
ReadsClock(name) == name \in {"createTodoHandler", "updateTodoHandler"}

\* what the invocation for request r does when its store call finds the
\* table holding records and ends in outcome
Routed(r, records, outcome) ==
  Run(HandlerOf(r.method), EventOf(r), records, r.uuid, r.clock, outcome)

\* the API invokes the Lambda handler for a request in flight: the handler
\* draws its uuid, reads the clock and reaches await docClient.send, or
\* answers at once
ApiInvokes ==
  /\ \E r \in requests, uuid \in Uuids \cup {Undefined} :
       LET name == HandlerOf(r.method)
           t == IF ReadsClock(name) THEN now ELSE 0
       IN /\ r.stage = "sent"
          /\ Drawn(name, EventOf(r), uuid)
          /\ requests' = (requests \ {r}) \cup
               {IF Awaits(name, EventOf(r))
                THEN [r EXCEPT !.stage = "invoked", !.clock = t, !.uuid = uuid]
                ELSE [r EXCEPT !.stage = "answered",
                        !.response = Run(name, EventOf(r), table, uuid, t,
                                         NoError).response]}
  /\ UNCHANGED << newTodoTitleInput, newTodoDescriptionInput, todoMessage, todoList,
                  sessions, issued, issuedFetch, latestResult >>
  /\ UNCHANGED << backendVars, authPageVars >>

\* await docClient.send settles for an invocation that waits: the store has
\* applied the command to the table as it is now, or has rejected it, and
\* the handler answers with the clock reading it took before the await
ApiHandles ==
  /\ \E r \in requests, outcome \in SomeOutcomes :
       /\ r.stage = "invoked"
       /\ table' = Routed(r, table, outcome).table
       /\ requests' = (requests \ {r}) \cup
            {[r EXCEPT !.stage = "answered", !.clock = 0, !.uuid = Undefined,
                       !.response = Routed(r, table, outcome).response]}
  /\ UNCHANGED << newTodoTitleInput, newTodoDescriptionInput, todoMessage, todoList,
                  sessions, issued, issuedFetch, latestResult >>
  /\ UNCHANGED << found, now, pc, reading, handler, event, sent, storeError, response,
                  calls, authPageVars >>

\* a request fails without an answer, the API never sees it: await
\* result.response rejects and the handler runs its catch block
RequestFails ==
  /\ \E r \in requests, message \in RequestErrors :
       /\ r.stage = "sent"
       /\ requests' = requests \ {r}
       /\ Caught(r, message)
  /\ UNCHANGED sessions
  /\ UNCHANGED << backendVars, authPageVars >>

\* renderTodos(todos): the list shows the to-dos, each with its two buttons
renderTodos(todos) ==
  IF Len(todos) = 0 THEN ListView("No To-Do items yet. Add one above!", << >>)
  ELSE ListView("todos", todos)

\* await result.response resolves with a 2xx answer: the handler calls
\* raw.body.json() and waits in await raw.body.json()
ResponseResolves ==
  /\ \E r \in requests :
       /\ Succeeded(r)
       /\ requests' = (requests \ {r}) \cup {[r EXCEPT !.stage = "parsing"]}
  /\ UNCHANGED << newTodoTitleInput, newTodoDescriptionInput, todoMessage, todoList,
                  sessions, issued, issuedFetch, latestResult >>
  /\ UNCHANGED << backendVars, authPageVars >>

\* await result.response rejects for an answer that is not 2xx: the handler
\* runs its catch block
ResponseRejects ==
  /\ \E r \in requests :
       /\ r.stage = "answered"
       /\ ~Succeeded(r)
       /\ requests' = requests \ {r}
       /\ Caught(r, Rejection(r))
  /\ UNCHANGED sessions
  /\ UNCHANGED << backendVars, authPageVars >>

\* await raw.body.json() rejects: the handler runs its catch block
JsonRejects ==
  /\ \E r \in requests, message \in JsonErrors :
       /\ r.stage = "parsing"
       /\ requests' = requests \ {r}
       /\ Caught(r, message)
  /\ UNCHANGED sessions
  /\ UNCHANGED << backendVars, authPageVars >>

\* fetchTodos from await raw.body.json() on, the body read
fetchTodosResumes ==
  /\ \E r \in requests :
       /\ r.method = "GET"
       /\ r.stage = "parsing"
       /\ requests' = requests \ {r}
       /\ todoList' =
            IF Len(r.response.body.todos) > 0
            THEN renderTodos(r.response.body.todos)
            ELSE ListView("No tasks for you, today!", << >>)
       /\ latestResult' = IF r.fetch = issuedFetch THEN todoList' ELSE latestResult
  /\ UNCHANGED << newTodoTitleInput, newTodoDescriptionInput, todoMessage,
                  sessions, issued, issuedFetch >>
  /\ UNCHANGED << backendVars, authPageVars >>

\* createTodo from await raw.body.json() on, the body read
createTodoResumes ==
  /\ \E r \in requests :
       /\ r.method = "POST"
       /\ r.stage = "parsing"
       /\ requests' = requests \ {r}
  /\ newTodoTitleInput' = << >>
  /\ newTodoDescriptionInput' = << >>
  /\ fetchTodos(sessions)
  /\ UNCHANGED << todoMessage, issued, latestResult >>
  /\ UNCHANGED << backendVars, authPageVars >>

\* updateTodoStatus from await raw.body.json() on, the body read
updateTodoStatusResumes ==
  /\ \E r \in requests :
       /\ r.method = "PUT"
       /\ r.stage = "parsing"
       /\ requests' = requests \ {r}
  /\ fetchTodos(sessions)
  /\ UNCHANGED << newTodoTitleInput, newTodoDescriptionInput, todoMessage, issued,
                  latestResult >>
  /\ UNCHANGED << backendVars, authPageVars >>

\* deleteTodo from await raw.body.json() on, the body read
deleteTodoResumes ==
  /\ \E r \in requests :
       /\ r.method = "DELETE"
       /\ r.stage = "parsing"
       /\ requests' = requests \ {r}
  /\ fetchTodos(sessions)
  /\ UNCHANGED << newTodoTitleInput, newTodoDescriptionInput, todoMessage, issued,
                  latestResult >>
  /\ UNCHANGED << backendVars, authPageVars >>

(***************************************************************************)
(* The sign-in form (initAuthHandlers).  handleSignUp, handleConfirmSignUp, *)
(* handleSignIn and handleSignOut each run to their await of Cognito in one *)
(* step and go on when Cognito resolves or rejects the call; main.js has    *)
(* called checkUserAuth, which awaits getCurrentUser.                       *)
(***************************************************************************)
\* the signUp, confirmSignUp, signIn and signOut calls one form awaits at a
\* time
MaxConfirming == 2

EmailInputs == {"", "a@b.c"}
PasswordInputs == {"", "pw"}
ConfirmationCodeInputs == {"", "123456", "000000"}

\* nextStep.signUpStep of a signUp that resolved
SignUpSteps == {"CONFIRM_SIGN_UP", "DONE"}

\* error.message of the rejections of signIn and signOut
AuthErrors == {"Incorrect username or password.", ""}

\* the calls of Cognito that the form awaits
Awaited == Len(signingUp) + Len(confirming) + Len(signingIn) + signingOut

\* what toggleAuthMode and handleConfirmSignUp write: the mode and the
\* elements of the form
Form ==
  [isSignInMode |-> isSignInMode, authHeading |-> authHeading,
   authMessage |-> authMessage, toggleAuthModeButton |-> toggleAuthModeButton,
   hidden |-> hidden]

\* the form shown in sign-in mode: the four statements both handlers share
SignInForm(form) ==
  [form EXCEPT !.authHeading = "Sign In",
               !.hidden = (form.hidden \cup {"signupButton", "confirmationCodeSection"})
                            \ {"signinButton"},
               !.toggleAuthModeButton = "Don't have an account? Sign Up"]

\* the form shown in sign-up mode
SignUpForm(form) ==
  [form EXCEPT !.authHeading = "Sign Up",
               !.hidden = (form.hidden \cup {"signinButton", "confirmationCodeSection"})
                            \ {"signupButton"},
               !.toggleAuthModeButton = "Already have an account? Sign In"]

\* toggleAuthMode, on a form
Toggled(form) ==
  LET mode == ~form.isSignInMode
      shown == IF mode THEN SignInForm(form) ELSE SignUpForm(form)
  IN [shown EXCEPT !.isSignInMode = mode, !.authMessage.textContent = << >>]

\* the confirmation shows the sign-in form and leaves the mode as it is
ConfirmedKeepingMode(form) ==
  [SignInForm(form) EXCEPT
     !.authMessage =
        Message(<< "Account confirmed successfully! You can now sign in." >>, GreenText)]

\* handleConfirmSignUp after confirmSignUp has resolved, on a form
Confirmed(form) ==
  [SignInForm(form) EXCEPT
     !.authMessage =
        Message(<< "Account confirmed successfully! You can now sign in." >>, GreenText),
     !.isSignInMode = TRUE]

\* the form is written
Shows(form) ==
  /\ isSignInMode' = form.isSignInMode
  /\ authHeading' = form.authHeading
  /\ authMessage' = form.authMessage
  /\ toggleAuthModeButton' = form.toggleAuthModeButton
  /\ hidden' = form.hidden

\* the user types in the inputs
TypeAuth ==
  /\ \E email \in EmailInputs, password \in PasswordInputs,
        code \in ConfirmationCodeInputs :
       /\ << email, password, code >>
            /= << emailInput, passwordInput, confirmationCodeInput >>
       /\ emailInput' = email
       /\ passwordInput' = password
       /\ confirmationCodeInput' = code
  /\ UNCHANGED << isSignInMode, authHeading, authMessage, toggleAuthModeButton,
                  hidden, signingUp, confirming, signingIn, signingOut, checking >>
  /\ UNCHANGED << backendVars, todoPageVars >>

toggleAuthMode ==
  /\ Shows(Toggled(Form))
  /\ UNCHANGED << emailInput, passwordInput, confirmationCodeInput, signingUp,
                  confirming, signingIn, signingOut, checking >>
  /\ UNCHANGED << backendVars, todoPageVars >>

\* handleSignUp up to await signUp, or to its return when an input is empty
handleSignUp ==
  /\ IF emailInput = "" \/ passwordInput = ""
     THEN /\ authMessage' = Message(<< "Email and Password are required." >>, RedText)
          /\ UNCHANGED signingUp
     ELSE /\ Awaited < MaxConfirming
          /\ authMessage' = Message(<< >>, authMessage.className)
          /\ signingUp' = Append(signingUp,
               [username |-> emailInput, password |-> passwordInput])
  /\ UNCHANGED << isSignInMode, authHeading, toggleAuthModeButton, hidden,
                  emailInput, passwordInput, confirmationCodeInput, confirming,
                  signingIn, signingOut, checking >>
  /\ UNCHANGED << backendVars, todoPageVars >>

\* handleSignUp from a resolved signUp on
handleSignUpResumes ==
  /\ \E k \in 1..Len(signingUp) : signingUp' = Settled(signingUp, k)
  /\ \E signUpStep \in SignUpSteps :
       IF signUpStep = "CONFIRM_SIGN_UP"
       THEN /\ authMessage' =
                 Message(<< "Sign up successful! Check your email for a confirmation code." >>,
                         GreenText)
            /\ hidden' = (hidden \ {"confirmationCodeSection"}) \cup {"signupButton"}
       ELSE /\ authMessage' =
                 Message(<< "Sign up next step: ", signUpStep >>, OrangeText)
            /\ UNCHANGED hidden
  /\ UNCHANGED << isSignInMode, authHeading, toggleAuthModeButton, emailInput,
                  passwordInput, confirmationCodeInput, confirming, signingIn,
                  signingOut, checking >>
  /\ UNCHANGED << backendVars, todoPageVars >>

\* handleSignUp from a rejected signUp on: the catch
handleSignUpCatches ==
  /\ \E k \in 1..Len(signingUp) : signingUp' = Settled(signingUp, k)
  /\ authMessage' = Message(<< "Sign up failed!" >>, RedText)
  /\ UNCHANGED << isSignInMode, authHeading, toggleAuthModeButton, hidden,
                  emailInput, passwordInput, confirmationCodeInput, confirming,
                  signingIn, signingOut, checking >>
  /\ UNCHANGED << backendVars, todoPageVars >>

\* handleConfirmSignUp up to await confirmSignUp, or to its return when an
\* input is empty
handleConfirmSignUp ==
  /\ IF emailInput = "" \/ confirmationCodeInput = ""
     THEN /\ authMessage' =
               Message(<< "Email and Confirmation Code are required." >>, RedText)
          /\ UNCHANGED confirming
     ELSE /\ Awaited < MaxConfirming
          /\ authMessage' = Message(<< >>, authMessage.className)
          /\ confirming' = Append(confirming,
               [username |-> emailInput, confirmationCode |-> confirmationCodeInput])
  /\ UNCHANGED << isSignInMode, authHeading, toggleAuthModeButton, hidden,
                  emailInput, passwordInput, confirmationCodeInput, signingUp,
                  signingIn, signingOut, checking >>
  /\ UNCHANGED << backendVars, todoPageVars >>

\* handleConfirmSignUp from a resolved confirmSignUp on
handleConfirmSignUpResumes ==
  /\ \E k \in 1..Len(confirming) : confirming' = Settled(confirming, k)
  /\ Shows(Confirmed(Form))
  /\ UNCHANGED << emailInput, passwordInput, confirmationCodeInput, signingUp,
                  signingIn, signingOut, checking >>
  /\ UNCHANGED << backendVars, todoPageVars >>

\* handleConfirmSignUp from a rejected confirmSignUp on: the catch
handleConfirmSignUpCatches ==
  /\ \E k \in 1..Len(confirming) : confirming' = Settled(confirming, k)
  /\ authMessage' =
       Message(<< "Confirmation failed, please check your code and try again." >>,
               RedText)
  /\ UNCHANGED << isSignInMode, authHeading, toggleAuthModeButton, hidden,
                  emailInput, passwordInput, confirmationCodeInput, signingUp,
                  signingIn, signingOut, checking >>
  /\ UNCHANGED << backendVars, todoPageVars >>

\* handleSignIn up to await signIn, or to its return when an input is empty
handleSignIn ==
  /\ IF emailInput = "" \/ passwordInput = ""
     THEN /\ authMessage' = Message(<< "Email and Password are required." >>, RedText)
          /\ UNCHANGED signingIn
     ELSE /\ Awaited < MaxConfirming
          /\ authMessage' = Message(<< >>, authMessage.className)
          /\ signingIn' = Append(signingIn,
               [username |-> emailInput, password |-> passwordInput])
  /\ UNCHANGED << isSignInMode, authHeading, toggleAuthModeButton, hidden,
                  emailInput, passwordInput, confirmationCodeInput, signingUp,
                  confirming, signingOut, checking >>
  /\ UNCHANGED << backendVars, todoPageVars >>

\* handleSignIn from a resolved signIn on: with isSignedIn it writes the
\* message and calls showTodoApp
handleSignInResumes ==
  /\ \E k \in 1..Len(signingIn) : signingIn' = Settled(signingIn, k)
  /\ \E isSignedIn \in BOOLEAN :
       IF isSignedIn
       THEN /\ Room(1)
            /\ authMessage' = Message(<< "Signed in successfully!" >>, GreenText)
            /\ showTodoApp
       ELSE /\ authMessage' =
                 Message(<< "Sign in failed! Please check your credentials and try again." >>,
                         OrangeText)
            /\ UNCHANGED << hidden, todoList, sessions, issuedFetch >>
  /\ UNCHANGED << isSignInMode, authHeading, toggleAuthModeButton, emailInput,
                  passwordInput, confirmationCodeInput, signingUp, confirming,
                  signingOut, checking >>
  /\ UNCHANGED << newTodoTitleInput, newTodoDescriptionInput, todoMessage, requests,
                  issued, latestResult >>
  /\ UNCHANGED backendVars

\* handleSignIn from a rejected signIn on: the catch
handleSignInCatches ==
  /\ \E k \in 1..Len(signingIn) : signingIn' = Settled(signingIn, k)
  /\ \E message \in AuthErrors :
       authMessage' = Message(<< "Sign In failed: ", ErrorMessage(message) >>, RedText)
  /\ UNCHANGED << isSignInMode, authHeading, toggleAuthModeButton, hidden,
                  emailInput, passwordInput, confirmationCodeInput, signingUp,
                  confirming, signingOut, checking >>
  /\ UNCHANGED << backendVars, todoPageVars >>

\* the click on the sign-out button: handleSignOut(todoList) up to
\* await signOut
handleSignOut ==
  /\ Awaited < MaxConfirming
  /\ signingOut' = signingOut + 1
  /\ UNCHANGED << isSignInMode, authHeading, authMessage, toggleAuthModeButton,
                  hidden, emailInput, passwordInput, confirmationCodeInput,
                  signingUp, confirming, signingIn, checking >>
  /\ UNCHANGED << backendVars, todoPageVars >>

\* handleSignOut from a resolved signOut on: the message, showAuthSection and
\* the list
handleSignOutResumes ==
  /\ signingOut > 0
  /\ signingOut' = signingOut - 1
  /\ authMessage' = Message(<< "Signed out successfully." >>, GreenText)
  /\ showAuthSection
  /\ todoList' = ListView("Loading To-Dos...", << >>)
  /\ UNCHANGED << isSignInMode, authHeading, toggleAuthModeButton, signingUp,
                  confirming, signingIn, checking >>
  /\ UNCHANGED << newTodoTitleInput, newTodoDescriptionInput, todoMessage, sessions,
                  requests, issued, issuedFetch, latestResult >>
  /\ UNCHANGED backendVars

\* handleSignOut from a rejected signOut on: the catch
handleSignOutCatches ==
  /\ signingOut > 0
  /\ signingOut' = signingOut - 1
  /\ \E message \in AuthErrors :
       authMessage' = Message(<< "Sign Out failed: ", ErrorMessage(message) >>, RedText)
  /\ UNCHANGED << isSignInMode, authHeading, toggleAuthModeButton, hidden,
                  emailInput, passwordInput, confirmationCodeInput, signingUp,
                  confirming, signingIn, checking >>
  /\ UNCHANGED << backendVars, todoPageVars >>

\* checkUserAuth from a resolved getCurrentUser on: showTodoApp
checkUserAuthResumes ==
  /\ checking
  /\ checking' = FALSE
  /\ showTodoApp
  /\ UNCHANGED << isSignInMode, authHeading, authMessage, toggleAuthModeButton,
                  emailInput, passwordInput, confirmationCodeInput, signingUp,
                  confirming, signingIn, signingOut >>
  /\ UNCHANGED << newTodoTitleInput, newTodoDescriptionInput, todoMessage, requests,
                  issued, latestResult >>
  /\ UNCHANGED backendVars

\* checkUserAuth from a rejected getCurrentUser on: the catch calls
\* showAuthSection
checkUserAuthCatches ==
  /\ checking
  /\ checking' = FALSE
  /\ showAuthSection
  /\ UNCHANGED << isSignInMode, authHeading, authMessage, toggleAuthModeButton,
                  signingUp, confirming, signingIn, signingOut >>
  /\ UNCHANGED << backendVars, todoPageVars >>

(***************************************************************************)
(* The to-do page of a signed-in user: checkUserAuth shows it, the user     *)
(* types and clicks, the API answers, the clock advances.                   *)
(***************************************************************************)
\* the page opens on a table that holds one to-do of the user
InitTodos ==
  /\ table = {Created(Str(<< "u1" >>), Str(<< "i1" >>), Str(<< "a" >>))}
  /\ found = table
  /\ now = 0
  /\ calls = NoCalls
  /\ FrontendInit
  /\ Idle

NextTodos ==
  \/ checkUserAuthResumes
  \/ TypeTodo
  \/ createTodo
  \/ updateTodoStatus
  \/ deleteTodo
  \/ SessionResolves
  \/ SessionFails
  \/ RequestAwaited
  \/ ApiInvokes
  \/ ApiHandles
  \/ RequestFails
  \/ Tick
  \/ ResponseResolves
  \/ ResponseRejects
  \/ JsonRejects
  \/ fetchTodosResumes
  \/ createTodoResumes
  \/ updateTodoStatusResumes
  \/ deleteTodoResumes

SpecTodos == InitTodos /\ [][NextTodos]_vars

(***************************************************************************)
(* The sign-in form, with the calls of showTodoApp and showAuthSection that *)
(* its handlers make.                                                       *)
(***************************************************************************)
InitAuth ==
  /\ table = {}
  /\ found = {}
  /\ now = 0
  /\ calls = NoCalls
  /\ FrontendInit
  /\ Idle

NextAuth ==
  \/ TypeAuth
  \/ toggleAuthMode
  \/ handleSignUp
  \/ handleSignUpResumes
  \/ handleSignUpCatches
  \/ handleConfirmSignUp
  \/ handleConfirmSignUpResumes
  \/ handleConfirmSignUpCatches
  \/ handleSignIn
  \/ handleSignInResumes
  \/ handleSignInCatches
  \/ handleSignOut
  \/ handleSignOutResumes
  \/ handleSignOutCatches
  \/ checkUserAuthResumes
  \/ checkUserAuthCatches

SpecAuth == InitAuth /\ [][NextAuth]_vars

(***************************************************************************)
(* Claims about the to-do page.                                             *)
(***************************************************************************)
\* a string of whitespace only, the empty string included
IsBlank(s) == \A k \in 1..Len(s) : s[k] = " "

\* C28: when createTodo runs with a title input that is empty after trimming,
\* it sets the message 'To-Do title cannot be empty.', starts no call that
\* goes on to a POST, issues no request and starts no list refresh; and no
\* create, waiting for its session or in flight, ever has a blank title.
C28_BlankTitleIsNotSent ==
  [][/\ (createTodo /\ IsBlank(newTodoTitleInput))
          => /\ todoMessage'.textContent = << "To-Do title cannot be empty." >>
             /\ sessions' = sessions
             /\ requests' = requests
             /\ issued' = issued
             /\ todoList' = todoList
             /\ issuedFetch' = issuedFetch
     /\ \A k \in 1..Len(sessions') :
          sessions'[k].method = "POST" => ~IsBlank(sessions'[k].body.value.title.str)
     /\ \A r \in requests' :
          r.method = "POST" => ~IsBlank(r.body.value.title.str)]_vars

\* C28 happens: createTodo has refused a title of one space, on a page that
\* had sent a create request before
C28_Witness ==
  /\ newTodoTitleInput = << " " >>
  /\ todoMessage.textContent = << "To-Do title cannot be empty." >>
  /\ issued > 0
  /\ \E i \in table : i.title = Str(<< "a" >>) /\ i.todoId = Str(<< "i2" >>)

\* C30: createTodo, updateTodoStatus and deleteTodo each call fetchTodos
\* when their request has succeeded, and once no call waits and no request
\* is in flight the list shows the answer of the fetchTodos called last.
C30_LastFetchIsShown ==
  [][/\ (createTodoResumes \/ updateTodoStatusResumes \/ deleteTodoResumes)
          => /\ issuedFetch' = issuedFetch + 1
             /\ todoList'.view = "Loading To-Dos..."
             /\ \E k \in 1..Len(sessions') :
                  sessions'[k].method = "GET" /\ sessions'[k].fetch = issuedFetch'
     /\ (sessions' = << >> /\ requests' = {} /\ issuedFetch' > 0)
          => todoList' = latestResult']_vars

(***************************************************************************)
(* Claims about the sign-in form.                                           *)
(***************************************************************************)
\* C29: the heading reads 'Sign In' exactly when isSignInMode is true, and
\* two toggles in a row bring the heading back; every toggleAuthMode flips
\* the mode, and a confirmation that succeeded leaves the form in sign-in
\* mode, whatever was toggled or confirmed while it was awaited.
C29_HeadingFollowsMode ==
  /\ [](/\ (authHeading = "Sign In") <=> isSignInMode
        /\ Toggled(Toggled(Form)).authHeading = authHeading
        /\ Toggled(Toggled(Form)).isSignInMode = isSignInMode)
  /\ [][/\ toggleAuthMode => isSignInMode' = ~isSignInMode
        /\ handleConfirmSignUpResumes
             => (isSignInMode' /\ authHeading' = "Sign In")]_vars

\* C29 happens: a confirmation has succeeded while another one is still
\* awaited
C29_Witness ==
  /\ isSignInMode
  /\ authHeading = "Sign In"
  /\ authMessage.textContent = << "Account confirmed successfully! You can now sign in." >>
  /\ "signupButton" \in hidden
  /\ Len(confirming) = 1

====
